---- MODULE Spec2Model ----
(***************************************************************************)
(* Verification model of the speedclaw agent orchestration engine:         *)
(*   - the capability registry dispatch        (lib/tools/index.ts)        *)
(*   - the tool-calling loop / Step Executor   (lib/agent.ts)              *)
(*   - the task scheduler and its task store   (lib/scheduler.ts,          *)
(*     lib/db.ts, lib/tools/scheduler.ts, app/api/tasks/route.ts)          *)
(*   - the stream decoder                      (lib/router.ts)             *)
(*                                                                         *)
(* Conventions.  A text is a sequence of string segments, so that          *)
(* concatenation is \o and "" is << >>; a null text is NullText.  An       *)
(* instant is a number of milliseconds; a null instant is NoTime.  The     *)
(* columns last_run, last_result, run_at, duration_ms, result and error    *)
(* are written but never read by the engine and are left out of the rows.  *)
(* The                                                                     *)
(* text of an ISO-8601 timestamp is represented by the decimal digits of   *)
(* its millisecond count.  Digit strings are sequences of characters.      *)
(* In the stream decoder a content text is a sequence of characters, so    *)
(* that tags can be searched for in it; "" is << >> there as well.         *)
(***************************************************************************)
EXTENDS Integers, Sequences, FiniteSets, TLC

\* ------------------------------------------------------------------------
\* Program constants
\* ------------------------------------------------------------------------

MAX_TOOL_LOOPS == 15

RecentLimit == 50

NullText == << "<null>" >>

NoTime == -1

TruncationNotice == << "\n\n[Reached maximum tool call limit. Stopping here.]" >>

SystemPrompt == << "You are NexusAgent" >>

\* ------------------------------------------------------------------------
\* Bounds of the model
\* ------------------------------------------------------------------------

\* longest list of tool calls one scripted model response carries
MaxCalls == 2

\* number of task rows the schedule_task capability creates per behaviour
\* (AUTOINCREMENT ids 1..MaxTasks)
MaxTasks == 1

\* number of task executions (scheduler runs and run-now requests) per behaviour
MaxRuns == 2

\* most fragments the tagged example text is cut into
MaxFragments == 4

\* most content fragments between an opening and a closing tag
MaxMid == 2

\* most deltas of a tool-call stream
MaxDeltas == 3

\* most pieces a classified message is put together from
MaxPieces == 2

\* most steps in the JSON a planner output carries
MaxSteps == 2

\* ------------------------------------------------------------------------
\* Capability registry (lib/tools/index.ts)
\* ------------------------------------------------------------------------

\* names registered by the register(...) calls at module load
toolRegistry ==
  { "brave_web_search", "browser_open", "browser_screenshot", "browser_click",
    "browser_fill", "browser_extract_text", "browser_close", "schedule_task",
    "list_tasks", "cancel_task", "pause_task", "resume_task", "read_memory",
    "write_memory", "http_request" }

\* names a model may ask for: the registered ones and one that is not
ToolNames == toolRegistry \cup { "no_such_tool" }

\* argument strings a model may send; JsonParses is JSON.parse's verdict on them
ArgStrings == { "", "{}", "{\"task_id\":9}", "{\"q\":", "null" }

JsonParses(s) == s \in { "{}", "{\"task_id\":9}", "null" }

\* what the registered executor does when invoked
ExecBehaviours == { "ok", "fail", "throw" }

\* tool.executor(args): the executor's own outcome
Executor(name, exec) ==
  CASE exec = "ok"    -> [threw |-> FALSE, success |-> TRUE,
                          result |-> << "done: ", name >>]
    [] exec = "fail"  -> [threw |-> FALSE, success |-> FALSE,
                          result |-> << "failed: ", name >>]
    [] exec = "throw" -> [threw |-> TRUE, success |-> FALSE,
                          result |-> << "boom: ", name >>]

\* mutant: the try/catch around the executor call is missing
executeTool_NoCatch(name, argsJson, exec) ==
  IF name \notin toolRegistry
    THEN [threw |-> FALSE, success |-> FALSE,
          result |-> << "Unknown tool: ", name >>]
    ELSE IF ~JsonParses(IF argsJson = "" THEN "{}" ELSE argsJson)
      THEN [threw |-> FALSE, success |-> FALSE,
            result |-> << "Invalid tool arguments JSON: ", argsJson >>]
      ELSE Executor(name, exec)

\* executeTool(name, argsJson); exec is the behaviour of the executor it reaches
executeTool(name, argsJson, exec) ==
  IF name \notin toolRegistry
    THEN [threw |-> FALSE, success |-> FALSE,
          result |-> << "Unknown tool: ", name >>]
    ELSE IF ~JsonParses(IF argsJson = "" THEN "{}" ELSE argsJson)
      THEN [threw |-> FALSE, success |-> FALSE,
            result |-> << "Invalid tool arguments JSON: ", argsJson >>]
      ELSE LET r == Executor(name, exec)
           IN  IF r.threw
                 THEN [threw |-> FALSE, success |-> FALSE,
                       result |-> << "Tool execution error: " >> \o r.result]
                 ELSE r

NoResult == [threw |-> FALSE, success |-> TRUE, result |-> << >>]


\* ------------------------------------------------------------------------
\* State
\* ------------------------------------------------------------------------

VARIABLES
  \* --- one executeTool call under test (registry specification)
  etName, etArgs, etExec, etOutcome,
  \* --- one Step Executor run (lib/agent.ts)
  agPc,           \* "idle", "await_model", "await_tool", "done", "failed", "unsettled"
  agMode,         \* "stream", "stream_step" (runAgentLoopStreaming), "plain" (runAgentLoop)
  script,         \* what the model of this run answers: its tool requests, its content, and
                  \* whether a response that requests tools carries the content too
  loopCount,      \* the loop's counter
  modelCalls,     \* model invocations issued by the run
  modelErrors,    \* model invocations that ended in a transport failure
  dispatches,     \* executeTool calls issued by the run
  messages,       \* the in-memory message array sent to the model
  dbMessages,     \* the stored conversation, oldest first
  convExists,     \* FALSE while the conversation's row is deleted
  streamed,       \* TRUE when the model call in flight has handed its content to onToken
  pendingCalls,   \* tool requests of the last assistant message
  tcIdx,          \* position in pendingCalls of the dispatch in flight
  lastResult,     \* result of the last executeTool call
  finalResponse,  \* the run's answer
  events,         \* events handed to onEvent, oldest first
  \* --- task store and scheduler (lib/db.ts, lib/scheduler.ts)
  now,            \* wall clock, milliseconds
  tasks,          \* scheduled_tasks: id -> row
  nextTaskId,     \* AUTOINCREMENT counter of scheduled_tasks
  logs,           \* task_run_logs, oldest first
  schedulerInterval, \* TRUE when schedulerInterval holds a timer
  timers,         \* interval timers alive: created and not cleared
  isRunning,      \* the tick's overlap guard
  tickCur,        \* the due task whose run is in flight in the tick (<< >> when none)
  tickQueue,      \* due tasks of the tick not yet processed
  apiRun,         \* the task a run-now request is executing (<< >> when none)
  notifyCallbacks,\* registered notification listeners
  delivered,      \* notifications handed to listeners, oldest first
  runsStarted,    \* task executions started so far
  \* --- one callOpenRouterStream call (lib/router.ts)
  dcInput,        \* the response stream handed to this call, as drawn
  dcPending,      \* content text not yet received, to be cut into fragments
  dcFragsLeft,    \* fragments dcPending may still be cut into
  dcStream,       \* transport reads not yet received, each a list of deltas
  dcPc,           \* "idle", "reading", "done"
  insideThinkTag, \* the decoder's reasoning-mode flag
  fullContent,    \* content accumulated so far
  toolCallsMap,   \* entries of the index map, in insertion order
  dcEvents,       \* callbacks made so far, oldest first
  \* --- one chat turn (app/api/chat/route.ts, lib/router.ts, lib/planner.ts)
  chMessage,      \* the user's message, a character sequence
  taskType,       \* the router's tag ("<none>" before classification)
  plContent,      \* the planner model's content output, a token sequence
  timeline,       \* what the planner returned: [plan, steps]
  chPc,           \* position of the chat turn
  plError,        \* TRUE when the planner's model call ends in a transport error
  chEvents,       \* items enqueued on the response stream, oldest first
  chStep,         \* position in timeline.steps of the step loop
  retryCount,     \* the step loop's retry counter
  chRuns,         \* Step Executor runs started by the turn, oldest first
  chUserRows,     \* user-role rows the turn added to the conversation, oldest first
  chRun           \* events the run in flight has emitted so far

toolVars == << etName, etArgs, etExec, etOutcome >>

agentVars == << agPc, agMode, script, loopCount, modelCalls, modelErrors,
                dispatches, messages, dbMessages, convExists, streamed,
                pendingCalls, tcIdx, lastResult, finalResponse, events >>

schedVars == << now, tasks, nextTaskId, logs, schedulerInterval, timers, isRunning,
                tickCur, tickQueue, apiRun, notifyCallbacks, delivered,
                runsStarted >>

decoderVars == << dcInput, dcPending, dcFragsLeft, dcStream, dcPc,
                  insideThinkTag, fullContent, toolCallsMap, dcEvents >>

chatRunVars == << plError, chEvents, chStep, retryCount, chRuns, chUserRows,
                 chRun >>

chatVars == << chMessage, taskType, plContent, timeline, chPc, chatRunVars >>

vars == << toolVars, agentVars, schedVars, decoderVars, chatVars >>

\* ------------------------------------------------------------------------
\* Registry specification: executeTool applied to every name, argument
\* string and executor behaviour
\* ------------------------------------------------------------------------

ToolIdle ==
  /\ etName = "no_such_tool"
  /\ etArgs = ""
  /\ etExec = "ok"
  /\ etOutcome = NoResult

AgentIdle ==
  /\ agPc = "idle"
  /\ agMode = "plain"
  /\ script = [calls |-> << >>, content |-> NullText, shows |-> FALSE]
  /\ loopCount = 0
  /\ modelCalls = 0
  /\ modelErrors = 0
  /\ dispatches = 0
  /\ messages = << >>
  /\ dbMessages = << >>
  /\ convExists = TRUE
  /\ streamed = FALSE
  /\ pendingCalls = << >>
  /\ tcIdx = 0
  /\ lastResult = NoResult
  /\ finalResponse = << >>
  /\ events = << >>

SchedIdle ==
  /\ now = 0
  /\ tasks = << >>
  /\ nextTaskId = 1
  /\ logs = << >>
  /\ schedulerInterval = FALSE
  /\ timers = 0
  /\ isRunning = FALSE
  /\ tickCur = << >>
  /\ tickQueue = << >>
  /\ apiRun = << >>
  /\ notifyCallbacks = << >>
  /\ delivered = << >>
  /\ runsStarted = 0

DecoderIdle ==
  /\ dcInput = << >>
  /\ dcPending = << >>
  /\ dcFragsLeft = 0
  /\ dcStream = << >>
  /\ dcPc = "idle"
  /\ insideThinkTag = FALSE
  /\ fullContent = << >>
  /\ toolCallsMap = << >>
  /\ dcEvents = << >>

NoTaskType == "<none>"

NoTimeline == [plan |-> FALSE, steps |-> << >>]

ChatRunIdle ==
  /\ plError = FALSE
  /\ chEvents = << >>
  /\ chStep = 0
  /\ retryCount = 0
  /\ chRuns = << >>
  /\ chUserRows = << >>
  /\ chRun = << >>

ChatIdle ==
  /\ chMessage = << >>
  /\ taskType = NoTaskType
  /\ plContent = << >>
  /\ timeline = NoTimeline
  /\ chPc = "idle"
  /\ ChatRunIdle

InitTool ==
  /\ etName \in ToolNames
  /\ etArgs \in ArgStrings
  /\ etExec \in ExecBehaviours
  /\ etOutcome = NoResult
  /\ AgentIdle
  /\ SchedIdle
  /\ DecoderIdle
  /\ ChatIdle

\* the call: await executeTool(name, argsJson)
ExecuteToolCall ==
  /\ etOutcome = NoResult
  /\ etOutcome' = executeTool(etName, etArgs, etExec)
  /\ UNCHANGED << etName, etArgs, etExec, agentVars, schedVars, decoderVars, chatVars >>

NextTool == ExecuteToolCall

SpecTool == InitTool /\ [][NextTool]_vars


\* ------------------------------------------------------------------------
\* Step Executor (lib/agent.ts): runAgentLoopStreaming and runAgentLoop
\* ------------------------------------------------------------------------

NullId == "<null>"

AgentModes == { "stream", "stream_step", "plain" }

Streaming(mode) == mode \in { "stream", "stream_step" }

\* Tool requests a scripted model can make, each with the behaviour of the
\* executor it reaches: a call that succeeds, an unregistered name, an
\* executor that throws, and a call without id (the decoder then assembles
\* id "").  Two requests share the id "call_a".
ScriptEntries ==
  { [id |-> "call_a", name |-> "read_memory",  arguments |-> "{}", exec |-> "ok"],
    [id |-> "call_b", name |-> "no_such_tool", arguments |-> "{}", exec |-> "ok"],
    [id |-> "call_a", name |-> "browser_open", arguments |-> "{}", exec |-> "throw"],
    [id |-> "",       name |-> "list_tasks",   arguments |-> "",   exec |-> "ok"] }

ScriptCallLists ==
  UNION { [1..n -> ScriptEntries] : n \in 1..MaxCalls }

\* a response that requests tools carries no content, or (shows, scripts of
\* one request) the same content as the final answer, as the system prompt
\* asks ("show your work")
Scripts ==
  [calls : ScriptCallLists, content : { NullText, << "answer" >> },
   shows : { FALSE }]
    \cup [calls : [1..1 -> ScriptEntries], content : { << "answer" >> },
          shows : { TRUE }]

\* the content of the response the scripted model gives
ResponseContent(sc, withTools) ==
  IF withTools /\ ~sc.shows THEN NullText ELSE sc.content

\* the ToolCall object of a request
ToolCallOf(e) == [id |-> e.id, name |-> e.name, arguments |-> e.arguments]

ToolCallsOf(es) == [i \in 1..Len(es) |-> ToolCallOf(es[i])]

Msg(role, content, toolCalls, toolCallId) ==
  [role |-> role, content |-> content, tool_calls |-> toolCalls,
   tool_call_id |-> toolCallId]

UserMessage == << "user prompt" >>

\* addMessage that keeps tool results back instead of inserting them at once
addMessage_Batched(db, role, content, toolCalls, toolCallId) ==
  IF role = "tool" THEN db
  ELSE Append(db, Msg(role, content, toolCalls,
                      IF toolCallId = "" THEN NullId ELSE toolCallId))

\* db.addMessage's row: the reference id is stored as toolCallId || null
addMessage(db, role, content, toolCalls, toolCallId) ==
  Append(db, Msg(role, content, toolCalls,
                 IF toolCallId = "" THEN NullId ELSE toolCallId))

\* dbMessages.slice(-50)
Recent(db) ==
  IF Len(db) <= RecentLimit THEN db
  ELSE SubSeq(db, Len(db) - RecentLimit + 1, Len(db))

\* the message array built before the loop: system message, then the recent rows
BuildMessages(db) ==
  << Msg("system", SystemPrompt, << >>, NullId) >> \o Recent(db)

\* conversations a run can find: empty, a plain exchange, an exchange with a tool call
PriorHistories ==
  { << >>,
    << Msg("user", << "hi" >>, << >>, NullId),
       Msg("assistant", << "hello" >>, << >>, NullId) >>,
    << Msg("user", << "hi" >>, << >>, NullId),
       Msg("assistant", NullText,
           << [id |-> "call_a", name |-> "read_memory", arguments |-> "{}"] >>, NullId),
       Msg("tool", << "done: ", "read_memory" >>, << >>, "call_a"),
       Msg("assistant", << "hello" >>, << >>, NullId) >> }

Event(type, data) == [type |-> type, data |-> data]

\* mutant: the loop test lets one more iteration through
LoopContinues_OffByOne(lc) == lc <= MAX_TOOL_LOOPS

\* while (loopCount < MAX_TOOL_LOOPS)
LoopContinues(lc) == lc < MAX_TOOL_LOOPS

\* if (loopCount >= MAX_TOOL_LOOPS) after the streaming loop
CapReached(lc) == lc >= MAX_TOOL_LOOPS

\* mutant: a failed model call is retried inside the loop
OnTransportError_Retry(lc) ==
  IF lc < MAX_TOOL_LOOPS
    THEN [pc |-> "await_model", loopCount |-> lc + 1, calls |-> 1]
    ELSE [pc |-> "failed", loopCount |-> lc, calls |-> 0]

\* onError -> reject(new Error(err)) / callOpenRouter throws: the await throws
\* and the run rejects
OnTransportError(lc) == [pc |-> "failed", loopCount |-> lc, calls |-> 0]

\* mutant: a failed dispatch ends the run
DispatchAborts_OnFailure(r) == r.threw \/ ~r.success

\* the await of executeTool throws only if executeTool does
DispatchAborts(r) == r.threw

\* content || ""
OrEmpty(content) == IF content = NullText THEN << >> ELSE content

\* The code after the loop, reached with answer fr and events ev:
\* streaming appends the notice at the cap and emits done; both return.
AfterLoop(fr, ev) ==
  /\ agPc' = "done"
  /\ UNCHANGED << loopCount, modelCalls >>
  /\ IF Streaming(agMode)
       THEN IF CapReached(loopCount)
              THEN /\ finalResponse' = fr \o TruncationNotice
                   /\ events' = ev \o << Event("token", TruncationNotice),
                                        Event("done", fr \o TruncationNotice) >>
              ELSE /\ finalResponse' = fr
                   /\ events' = Append(ev, Event("done", fr))
       ELSE /\ finalResponse' = fr
            /\ events' = ev

\* The loop head, reached with events ev: either the next iteration starts
\* (loopCount++, the model call is issued) or the loop is left.
LoopHead(ev) ==
  IF LoopContinues(loopCount)
    THEN /\ loopCount' = loopCount + 1
         /\ modelCalls' = modelCalls + 1
         /\ agPc' = "await_model"
         /\ events' = ev
         /\ UNCHANGED finalResponse
    ELSE AfterLoop(finalResponse, ev)

InitAgent ==
  /\ agPc = "idle"
  /\ agMode \in AgentModes
  /\ script \in Scripts
  /\ \E h \in PriorHistories :
       \* in step mode the pipeline has already stored the user's message
       dbMessages = IF agMode = "stream_step"
                      THEN Append(h, Msg("user", UserMessage, << >>, NullId))
                      ELSE h
  /\ loopCount = 0
  /\ modelCalls = 0
  /\ modelErrors = 0
  /\ dispatches = 0
  /\ messages = << >>
  /\ convExists = TRUE
  /\ streamed = FALSE
  /\ pendingCalls = << >>
  /\ tcIdx = 0
  /\ lastResult = NoResult
  /\ finalResponse = << >>
  /\ events = << >>
  /\ ToolIdle
  /\ SchedIdle
  /\ DecoderIdle
  /\ ChatIdle

\* the INSERT of db.addMessage is refused (throws) when the conversation's
\* row is gone: conversation_id REFERENCES conversations(id), foreign_keys = ON
addMessageThrows(exists) == ~exists

\* Entry of the run up to its first await: store the user message (not in
\* step mode), build the message array, enter the loop.
StartRun ==
  /\ agPc = "idle"
  /\ LET db == IF agMode = "stream_step" THEN dbMessages
               ELSE addMessage(dbMessages, "user", UserMessage, << >>, NullId)
     IN  /\ dbMessages' = db
         /\ messages' = BuildMessages(db)
  /\ LoopHead(events)
  /\ UNCHANGED << agMode, script, modelErrors, dispatches, convExists, streamed,
                  pendingCalls, tcIdx, lastResult, toolVars, schedVars,
                  decoderVars, chatVars >>

\* A read of the streaming model call's response carries the content: onToken
\* hands it to onEvent while the call is still awaited.
ModelStreams ==
  /\ agPc = "await_model"
  /\ Streaming(agMode)
  /\ ~streamed
  /\ script.content # NullText
  /\ events' = Append(events, Event("token", script.content))
  /\ streamed' = TRUE
  /\ UNCHANGED << agPc, agMode, script, loopCount, modelCalls, modelErrors,
                  dispatches, messages, dbMessages, convExists, pendingCalls,
                  tcIdx, lastResult, finalResponse, toolVars, schedVars,
                  decoderVars, chatVars >>

\* DELETE /api/conversations while the run awaits a model call or a dispatch:
\* db.deleteConversation removes the conversation's row and, by ON DELETE
\* CASCADE, its messages
DeleteConversation ==
  /\ agPc \in { "await_model", "await_tool" }
  /\ convExists
  /\ convExists' = FALSE
  /\ dbMessages' = << >>
  /\ UNCHANGED << agPc, agMode, script, loopCount, modelCalls, modelErrors,
                  dispatches, messages, streamed, pendingCalls, tcIdx,
                  lastResult, finalResponse, events, toolVars, schedVars,
                  decoderVars, chatVars >>

\* POST /api/conversations with the id of the deleted conversation while the
\* run awaits: db.createConversation inserts the row again, without messages
CreateConversation ==
  /\ agPc \in { "await_model", "await_tool" }
  /\ ~convExists
  /\ convExists' = TRUE
  /\ UNCHANGED << agPc, agMode, script, loopCount, modelCalls, modelErrors,
                  dispatches, messages, dbMessages, streamed, pendingCalls,
                  tcIdx, lastResult, finalResponse, events, toolVars, schedVars,
                  decoderVars, chatVars >>

\* The streaming model call ends without a terminal callback: the promise of
\* callOpenRouterStream rejects with neither onDone nor onError, so the
\* promise the loop awaits is never settled.  Either the body of a response
\* that is not ok cannot be read (k = 0: nothing was streamed and no callback
\* is made), or, after the stream has ended, onToolCall throws for the k-th
\* tool call of the response (onEvent throws), when the tool_start events of
\* the calls before it have been handed to onEvent.
ModelCallLost ==
  /\ agPc = "await_model"
  /\ Streaming(agMode)
  /\ \E k \in 0..Len(script.calls) :
       LET tcs == ToolCallsOf(script.calls)
       IN  /\ IF k = 0
                THEN ~streamed
                ELSE streamed <=> ResponseContent(script, TRUE) # NullText
           /\ events' =
                events \o [i \in 1..(k - 1) |->
                             Event("tool_start", << tcs[i].name >>)]
  /\ agPc' = "unsettled"
  /\ UNCHANGED << agMode, script, loopCount, modelCalls, modelErrors,
                  dispatches, messages, dbMessages, convExists, streamed,
                  pendingCalls, tcIdx, lastResult, finalResponse, toolVars,
                  schedVars, decoderVars, chatVars >>

\* The model call resolves with an assistant message: with the script's tool
\* requests (withTools) or without, and with the content of that response,
\* which a streaming call has handed to onToken before.  The onToolCall
\* callbacks come with the end of the stream; then the assistant message is
\* stored with its content and its tool calls, unless the INSERT is refused,
\* which rejects the run.
ModelDone(withTools) ==
  /\ agPc = "await_model"
  /\ Streaming(agMode)
       => (streamed <=> ResponseContent(script, withTools) # NullText)
  /\ LET content == ResponseContent(script, withTools)
         calls   == IF withTools THEN script.calls ELSE << >>
         tcs     == ToolCallsOf(calls)
         ev == IF Streaming(agMode)
                 THEN events
                      \o [i \in 1..Len(tcs) |-> Event("tool_start", << tcs[i].name >>)]
                 ELSE events
     IN  IF addMessageThrows(convExists)
           THEN /\ agPc' = "failed"
                /\ events' = ev
                /\ UNCHANGED << loopCount, modelCalls, dispatches, messages,
                                dbMessages, pendingCalls, tcIdx, finalResponse >>
           ELSE /\ dbMessages' = addMessage(dbMessages, "assistant", content, tcs, NullId)
                /\ messages' = Append(messages, Msg("assistant", content, tcs, NullId))
                /\ pendingCalls' = calls
                /\ IF Len(calls) > 0
                     THEN \* the first executeTool call is issued
                          /\ tcIdx' = 1
                          /\ dispatches' = dispatches + 1
                          /\ agPc' = "await_tool"
                          /\ events' = ev
                          /\ UNCHANGED << loopCount, modelCalls, finalResponse >>
                     ELSE \* finalResponse = content || ""; break
                          /\ tcIdx' = 0
                          /\ UNCHANGED dispatches
                          /\ AfterLoop(OrEmpty(content), ev)
  /\ streamed' = FALSE
  /\ UNCHANGED << agMode, script, modelErrors, convExists, lastResult, toolVars,
                  schedVars, decoderVars, chatVars >>

\* The model call ends in a transport failure; what a streaming call has
\* handed to onToken before stays among the events.
ModelError ==
  /\ agPc = "await_model"
  /\ LET t == OnTransportError(loopCount)
     IN  /\ agPc' = t.pc
         /\ loopCount' = t.loopCount
         /\ modelCalls' = modelCalls + t.calls
  /\ modelErrors' = modelErrors + 1
  /\ streamed' = FALSE
  /\ UNCHANGED << agMode, script, dispatches, messages, dbMessages, convExists,
                  pendingCalls, tcIdx, lastResult, finalResponse, events,
                  toolVars, schedVars, decoderVars, chatVars >>

\* The executeTool call in flight returns: emit tool_end, store the tool
\* message (a refused INSERT rejects the run), then dispatch the next call or
\* go back to the loop head.
ToolReturn ==
  /\ agPc = "await_tool"
  /\ LET e == pendingCalls[tcIdx]
         r == executeTool(e.name, e.arguments, e.exec)
         ev == IF Streaming(agMode)
                 THEN Append(events, Event("tool_end", r.result))
                 ELSE events
     IN  /\ lastResult' = r
         /\ IF DispatchAborts(r)
              THEN /\ agPc' = "failed"
                   /\ UNCHANGED << loopCount, modelCalls, dispatches, messages,
                                   dbMessages, tcIdx, finalResponse, events >>
              ELSE IF addMessageThrows(convExists)
                THEN /\ agPc' = "failed"
                     /\ events' = ev
                     /\ UNCHANGED << loopCount, modelCalls, dispatches, messages,
                                     dbMessages, tcIdx, finalResponse >>
                ELSE /\ dbMessages' = addMessage(dbMessages, "tool", r.result, << >>, e.id)
                     /\ messages' = Append(messages, Msg("tool", r.result, << >>, e.id))
                     /\ IF tcIdx < Len(pendingCalls)
                          THEN /\ tcIdx' = tcIdx + 1
                               /\ dispatches' = dispatches + 1
                               /\ events' = ev
                               /\ UNCHANGED << agPc, loopCount, modelCalls, finalResponse >>
                          ELSE /\ UNCHANGED << tcIdx, dispatches >>
                               /\ LoopHead(ev)
  /\ UNCHANGED << agMode, script, modelErrors, convExists, streamed, pendingCalls,
                  toolVars, schedVars, decoderVars, chatVars >>

NextAgent ==
  \/ StartRun
  \/ ModelStreams
  \/ \E withTools \in BOOLEAN : ModelDone(withTools)
  \/ ModelError
  \/ ToolReturn
  \/ DeleteConversation
  \/ ModelCallLost

SpecAgent == InitAgent /\ [][NextAgent]_vars

\* every model call and every dispatch of a run returns: the call resolves,
\* fails, or ends without a terminal callback
FairSpecAgent ==
  /\ SpecAgent
  /\ WF_vars(ModelStreams \/ (\E withTools \in BOOLEAN : ModelDone(withTools))
               \/ ModelError \/ ModelCallLost)
  /\ WF_vars(ToolReturn)
  /\ WF_vars(StartRun)

\* --- the run on a conversation that collaborators delete and create again
\* under the same id while the run awaits

\* the requests of the scripted model: a call that succeeds and one of an
\* unregistered name
ConversationScripts ==
  { sc \in Scripts :
      \A i \in 1..Len(sc.calls) :
        sc.calls[i].name \in { "read_memory", "no_such_tool" } }

InitConversation ==
  /\ InitAgent
  /\ script \in ConversationScripts
  /\ Len(dbMessages) <= 1

NextConversation ==
  \/ NextAgent
  \/ CreateConversation

SpecConversation == InitConversation /\ [][NextConversation]_vars

\* --- the same run on a conversation that already holds RecentLimit messages

LongHistory ==
  [i \in 1..RecentLimit |->
     IF i % 2 = 1 THEN Msg("user", << "hi" >>, << >>, NullId)
                  ELSE Msg("assistant", << "hello" >>, << >>, NullId)]

InitLongHistory ==
  /\ agPc = "idle"
  /\ agMode \in AgentModes
  /\ script \in Scripts
  /\ dbMessages = IF agMode = "stream_step"
                    THEN Append(LongHistory, Msg("user", UserMessage, << >>, NullId))
                    ELSE LongHistory
  /\ loopCount = 0
  /\ modelCalls = 0
  /\ modelErrors = 0
  /\ dispatches = 0
  /\ messages = << >>
  /\ convExists = TRUE
  /\ streamed = FALSE
  /\ pendingCalls = << >>
  /\ tcIdx = 0
  /\ lastResult = NoResult
  /\ finalResponse = << >>
  /\ events = << >>
  /\ ToolIdle
  /\ SchedIdle
  /\ DecoderIdle
  /\ ChatIdle

SpecLongHistory == InitLongHistory /\ [][NextAgent]_vars


\* ------------------------------------------------------------------------
\* Task store (lib/db.ts) and schedule computation (lib/tools/scheduler.ts)
\* ------------------------------------------------------------------------

\* instants the clock is observed at
Instants == { 0, 60000, 120000 }

UndefStatus == "<undefined>"

UndefTime == -2

NullConversation == "<null>"

IsDigit(c) == c \in { "0", "1", "2", "3", "4", "5", "6", "7", "8", "9" }

DigitVal(c) ==
  CASE c = "0" -> 0 [] c = "1" -> 1 [] c = "2" -> 2 [] c = "3" -> 3
    [] c = "4" -> 4 [] c = "5" -> 5 [] c = "6" -> 6 [] c = "7" -> 7
    [] c = "8" -> 8 [] c = "9" -> 9

RECURSIVE SkipSpaces(_)
SkipSpaces(s) ==
  IF s # << >> /\ Head(s) = " " THEN SkipSpaces(Tail(s)) ELSE s

RECURSIVE DigitPrefix(_)
DigitPrefix(s) ==
  IF s # << >> /\ IsDigit(Head(s))
    THEN << Head(s) >> \o DigitPrefix(Tail(s))
    ELSE << >>

RECURSIVE DigitsValue(_, _)
DigitsValue(ds, acc) ==
  IF ds = << >> THEN acc
  ELSE DigitsValue(Tail(ds), acc * 10 + DigitVal(Head(ds)))

\* parseInt(s, 10): leading blanks, an optional sign, then the longest run of
\* digits; ok = FALSE stands for NaN
parseInt(s) ==
  LET t    == SkipSpaces(s)
      neg  == t # << >> /\ Head(t) = "-"
      body == IF t # << >> /\ Head(t) \in { "-", "+" } THEN Tail(t) ELSE t
      ds   == DigitPrefix(body)
  IN  IF ds = << >> THEN [ok |-> FALSE, value |-> 0]
      ELSE [ok |-> TRUE,
            value |-> IF neg THEN 0 - DigitsValue(ds, 0) ELSE DigitsValue(ds, 0)]

V60000 == << "6", "0", "0", "0", "0" >>

V60300 == << "6", "0", "3", "0", "0" >>

VDaily == << "0", " ", "8", " ", "*", " ", "*", " ", "*" >>

\* The instant new Date("0 8 * * *") denotes.  The engine's fallback date
\* parser reads the text as a date, 2000-08-01T00:00:00.000Z, which is
\* 965088000000 ms after the epoch.  The instants of the clock are counted
\* from the midnight of a day the program runs on, which is later than that
\* date, so on this scale the date is a negative number beyond the integers of the
\* checker; the least of them that is a whole second stands for it.  Like
\* the date, it is earlier than every instant of the clock and differs from
\* null; it is only stored and compared, never added to.
FallbackDate == -2147483000

\* new Date(text).getTime(): the instant when the text is a timestamp (all
\* digits here), the fallback parser's reading of the text "0 8 * * *", NaN
\* for the other texts used here
dateParse(s) ==
  IF s # << >> /\ DigitPrefix(s) = s
    THEN [ok |-> TRUE, value |-> DigitsValue(s, 0)]
    ELSE IF s = VDaily
      THEN [ok |-> TRUE, value |-> FallbackDate]
      ELSE [ok |-> FALSE, value |-> 0]

VSoon == << "s", "o", "o", "n" >>

\* cron.validate on the expressions used here
cronValidate(s) == s \in { VDaily }

\* arguments of schedule_task requests: one well-formed request per kind and
\* requests the executor rejects
ScheduleRequests ==
  { [schedule_type |-> "once",     schedule_value |-> V60300, notify |-> "<absent>"],
    [schedule_type |-> "interval", schedule_value |-> V60300, notify |-> "<absent>"],
    [schedule_type |-> "cron",     schedule_value |-> VDaily, notify |-> "false"],
    [schedule_type |-> "once",     schedule_value |-> VSoon,  notify |-> "<absent>"],
    [schedule_type |-> "once",     schedule_value |-> VDaily, notify |-> "<absent>"],
    [schedule_type |-> "interval", schedule_value |-> VSoon,  notify |-> "<absent>"],
    [schedule_type |-> "cron",     schedule_value |-> V60000, notify |-> "<absent>"],
    [schedule_type |-> "weekly",   schedule_value |-> V60000, notify |-> "<absent>"] }

\* computeNextRun(scheduleType, scheduleValue) at clock t; NoTime is null
computeNextRun(scheduleType, scheduleValue, t) ==
  CASE scheduleType = "once" ->
         LET target == dateParse(scheduleValue)
         IN  IF ~target.ok THEN NoTime ELSE target.value
    [] scheduleType = "interval" ->
         LET ms == parseInt(scheduleValue)
         IN  IF ~ms.ok THEN NoTime ELSE t + ms.value
    [] scheduleType = "cron" ->
         IF ~cronValidate(scheduleValue) THEN NoTime ELSE t + 60000
    [] OTHER -> NoTime

\* computeNextCronRun(cronExpression) at clock t
computeNextCronRun(cronExpression, t) ==
  IF ~cronValidate(cronExpression) THEN NoTime ELSE t + 60000

\* SQLite datetime(): the timestamp cut to whole seconds
datetime(t) == t \div 1000

\* WHERE status = 'active' AND next_run IS NOT NULL
\*   AND datetime(next_run) <= datetime('now')
IsDueRow(row, t) ==
  /\ row.status = "active"
  /\ row.next_run # NoTime
  /\ datetime(row.next_run) <= datetime(t)

\* ids of the rows getDueTasks() returns at clock t
DueIds(tbl, t) == { id \in DOMAIN tbl : IsDueRow(tbl[id], t) }

\* what processTask reads from a row it was handed
Snapshot(tbl, id) ==
  [id |-> id, schedule_type |-> tbl[id].schedule_type,
   schedule_value |-> tbl[id].schedule_value, notify |-> tbl[id].notify,
   conversation_id |-> tbl[id].conversation_id]

RECURSIVE RowsInIdOrder(_, _)
RowsInIdOrder(tbl, ids) ==
  IF ids = { } THEN << >>
  ELSE LET m == CHOOSE i \in ids : \A j \in ids : i <= j
       IN  << Snapshot(tbl, m) >> \o RowsInIdOrder(tbl, ids \ { m })

\* getDueTasks(): the due rows, in rowid order
getDueTasks(tbl, t) == RowsInIdOrder(tbl, DueIds(tbl, t))

\* createTask: INSERT with the next AUTOINCREMENT id
createTask(tbl, id, row) ==
  [i \in DOMAIN tbl \cup { id } |-> IF i = id THEN row ELSE tbl[i]]

NoUpdates == [status |-> UndefStatus, next_run |-> UndefTime]

\* updateTask(id, updates): only the fields that are not undefined are written;
\* a missing row is left missing
updateTask(tbl, id, u) ==
  IF id \notin DOMAIN tbl THEN tbl
  ELSE [tbl EXCEPT ![id] =
         [@ EXCEPT
            !.status   = IF u.status = UndefStatus THEN @ ELSE u.status,
            !.next_run = IF u.next_run = UndefTime THEN @ ELSE u.next_run]]

\* deleteTask(id): the task's log rows, then the task row
deleteTaskRows(tbl, id) == [i \in DOMAIN tbl \ { id } |-> tbl[i]]

deleteTaskLogs(lg, id) == SelectSeq(lg, LAMBDA r : r.task_id # id)

\* mutant: the log table has no foreign key, the INSERT never throws
logTaskRunThrows_NoForeignKey(tbl, id) == FALSE

\* logTaskRun: the INSERT is refused (throws) when the task row is gone,
\* task_id REFERENCES scheduled_tasks(id) with foreign_keys = ON
logTaskRunThrows(tbl, id) == id \notin DOMAIN tbl

logTaskRun(lg, id, outcome) ==
  Append(lg, [task_id |-> id, status |-> outcome])

\* ------------------------------------------------------------------------
\* Scheduler (lib/scheduler.ts), task tools (lib/tools/scheduler.ts) and the
\* tasks API (app/api/tasks/route.ts)
\*
\* A task run awaits runAgentLoop; here the run is the interval between the
\* step that starts it and the step that ends it with an outcome ("success"
\* when runAgentLoop returned, "error" when it threw).  Whatever the run does
\* to tasks through capabilities is done by the tool actions below, which
\* may interleave with it.
\* ------------------------------------------------------------------------

RunOutcomes == { "success", "error" }

\* the result of a run, the text runAgentLoop returned or `Error: ${error}`
\* when it threw, is represented by its length in characters: an empty
\* answer, answers of 1000 and of 1001 characters, and error texts with an
\* empty message and with one of 1000 characters
RunResults(outcome) ==
  IF outcome = "error" THEN { 7, 1007 } ELSE { 0, 1000, 1001 }

\* mutant: a successful run writes status active on a recurring task
ProcessUpdates_Reactivates(task, outcome, t) ==
  [status |-> IF outcome = "error" THEN "error"
              ELSE IF task.schedule_type = "once" THEN "completed"
              ELSE "active",
   next_run |-> CASE task.schedule_type = "once" -> NoTime
                  [] task.schedule_type = "interval" ->
                       t + parseInt(task.schedule_value).value
                  [] task.schedule_type = "cron" ->
                       computeNextCronRun(task.schedule_value, t)
                  [] OTHER -> UndefTime]

\* the updates object processTask builds after a run with the given outcome
ProcessUpdates(task, outcome, t) ==
  [status |-> IF outcome = "error" THEN "error"
              ELSE IF task.schedule_type = "once" THEN "completed"
              ELSE UndefStatus,
   next_run |-> CASE task.schedule_type = "once" -> NoTime
                  [] task.schedule_type = "interval" ->
                       t + parseInt(task.schedule_value).value
                  [] task.schedule_type = "cron" ->
                       computeNextCronRun(task.schedule_value, t)
                  [] OTHER -> UndefTime]

\* new Date(Date.now() + NaN).toISOString() throws
ProcessUpdatesThrows(task) ==
  task.schedule_type = "interval" /\ ~parseInt(task.schedule_value).ok

\* notification callbacks that can be registered; the ones in
\* ThrowingListeners throw when called
Listeners == { "l_first", "l_bad", "l_last" }

ThrowingListeners == { "l_bad" }

\* notifyClients: every registered listener is called, in registration order,
\* with the conversation id and the message; what a listener throws is
\* swallowed.  The message is the line naming the task and the truncated
\* result.
notifyClients(dl, cbs, conversationId, taskId, result) ==
  dl \o [i \in 1..Len(cbs) |->
           [listener |-> cbs[i], conversation_id |-> conversationId,
            task_id |-> taskId, result |-> result]]

InitSched ==
  /\ SchedIdle
  /\ AgentIdle
  /\ ToolIdle
  /\ DecoderIdle
  /\ ChatIdle

\* time passes
AdvanceClock ==
  /\ \E t \in Instants : t > now /\ now' = t
  /\ UNCHANGED << tasks, nextTaskId, logs, schedulerInterval, timers, isRunning, tickCur,
                  tickQueue, apiRun, notifyCallbacks, delivered, runsStarted,
                  toolVars, agentVars, decoderVars, chatVars >>

\* the schedule_task capability; notify = (args.notify !== "false")
ScheduleTask(req) ==
  /\ nextTaskId <= MaxTasks
  /\ LET nextRun == computeNextRun(req.schedule_type, req.schedule_value, now)
         rejected ==
           \/ req.schedule_type \notin { "cron", "once", "interval" }
           \/ (req.schedule_type = "cron" /\ ~cronValidate(req.schedule_value))
           \/ nextRun = NoTime
     IN  IF rejected
           THEN UNCHANGED << tasks, nextTaskId >>
           ELSE /\ tasks' = createTask(tasks, nextTaskId,
                     [schedule_type |-> req.schedule_type,
                      schedule_value |-> req.schedule_value,
                      status |-> "active", notify |-> (req.notify # "false"),
                      next_run |-> nextRun,
                      conversation_id |-> NullConversation])
                /\ nextTaskId' = nextTaskId + 1
  /\ UNCHANGED << now, logs, schedulerInterval, timers, isRunning, tickCur, tickQueue,
                  apiRun, notifyCallbacks, delivered, runsStarted,
                  toolVars, agentVars, decoderVars, chatVars >>

SchedOthers ==
  << now, nextTaskId, schedulerInterval, timers, isRunning, tickCur, tickQueue, apiRun,
     notifyCallbacks, delivered, runsStarted, toolVars, agentVars, decoderVars, chatVars >>

\* the pause_task capability and PATCH /api/tasks with action pause: both
\* are db.updateTask(id, { status: "paused" }) on an existing task
PauseTask(id) ==
  /\ id \in DOMAIN tasks
  /\ tasks' = updateTask(tasks, id, [NoUpdates EXCEPT !.status = "paused"])
  /\ UNCHANGED << logs, SchedOthers >>

\* the resume_task capability: status active, next_run recomputed unless the
\* recomputation gives null (nextRun || undefined)
ResumeTask(id) ==
  /\ id \in DOMAIN tasks
  /\ LET nextRun == computeNextRun(tasks[id].schedule_type,
                                   tasks[id].schedule_value, now)
     IN  tasks' = updateTask(tasks, id,
           [NoUpdates EXCEPT !.status = "active",
                             !.next_run = IF nextRun = NoTime THEN UndefTime
                                          ELSE nextRun])
  /\ UNCHANGED << logs, SchedOthers >>

\* the cancel_task capability and PATCH /api/tasks with action cancel or
\* delete: both are db.deleteTask(id) on an existing task
CancelTask(id) ==
  /\ id \in DOMAIN tasks
  /\ tasks' = deleteTaskRows(tasks, id)
  /\ logs' = deleteTaskLogs(logs, id)
  /\ UNCHANGED SchedOthers

\* PATCH /api/tasks, action resume: the status only
ApiResume(id) ==
  /\ id \in DOMAIN tasks
  /\ tasks' = updateTask(tasks, id, [NoUpdates EXCEPT !.status = "active"])
  /\ UNCHANGED << logs, SchedOthers >>

\* PATCH /api/tasks, action run, up to the await of runAgentLoop
ApiRunBegin(id) ==
  /\ id \in DOMAIN tasks
  /\ apiRun = << >>
  /\ runsStarted < MaxRuns
  /\ apiRun' = Snapshot(tasks, id)
  /\ runsStarted' = runsStarted + 1
  /\ UNCHANGED << now, tasks, nextTaskId, logs, schedulerInterval, timers, isRunning,
                  tickCur, tickQueue, notifyCallbacks, delivered,
                  toolVars, agentVars, decoderVars, chatVars >>

\* PATCH /api/tasks, action run, after the run: the log row, then the update
\* of last_run and last_result (no modelled column); a refused log INSERT
\* fails the request before the update
ApiRunEnd(outcome) ==
  /\ apiRun # << >>
  /\ apiRun' = << >>
  /\ IF logTaskRunThrows(tasks, apiRun.id)
       THEN UNCHANGED << tasks, logs >>
       ELSE /\ logs' = logTaskRun(logs, apiRun.id, outcome)
            /\ tasks' = updateTask(tasks, apiRun.id,
                 NoUpdates)
  /\ UNCHANGED << now, nextTaskId, schedulerInterval, timers, isRunning, tickCur,
                  tickQueue, notifyCallbacks, delivered, runsStarted,
                  toolVars, agentVars, decoderVars, chatVars >>

\* mutant: the tick does not look at the guard
TickBody_NoGuard ==
  LET due == getDueTasks(tasks, now)
  IN  IF due = << >>
        THEN UNCHANGED << isRunning, tickCur, tickQueue, runsStarted >>
        ELSE /\ isRunning' = TRUE
             /\ tickCur' = Head(due)
             /\ tickQueue' = Tail(due)
             /\ runsStarted' = runsStarted + 1

\* schedulerTick() up to its first await: skipped when a tick is running,
\* otherwise the guard is taken, the due tasks are queried and the first
\* one's run is started; with nothing due the tick ends at once
TickBody ==
  IF isRunning
    THEN UNCHANGED << isRunning, tickCur, tickQueue, runsStarted >>
    ELSE LET due == getDueTasks(tasks, now)
         IN  IF due = << >>
               THEN UNCHANGED << isRunning, tickCur, tickQueue, runsStarted >>
               ELSE /\ isRunning' = TRUE
                    /\ tickCur' = Head(due)
                    /\ tickQueue' = Tail(due)
                    /\ runsStarted' = runsStarted + 1

\* room for the runs a tick started now would make
TickFits ==
  isRunning \/ runsStarted + Cardinality(DueIds(tasks, now)) <= MaxRuns

\* startScheduler(): a no-op when the timer exists; otherwise create the timer
\* and run a tick immediately
StartScheduler ==
  IF schedulerInterval
    THEN UNCHANGED vars
    ELSE /\ TickFits
         /\ schedulerInterval' = TRUE
         /\ timers' = timers + 1
         /\ TickBody
         /\ UNCHANGED << now, tasks, nextTaskId, logs, apiRun, notifyCallbacks,
                         delivered, toolVars, agentVars, decoderVars, chatVars >>

\* stopScheduler(): the timer held is cleared and forgotten; a tick in
\* flight goes on
StopScheduler ==
  /\ IF schedulerInterval
       THEN schedulerInterval' = FALSE /\ timers' = timers - 1
       ELSE UNCHANGED << schedulerInterval, timers >>
  /\ UNCHANGED << now, tasks, nextTaskId, logs, isRunning, tickCur, tickQueue,
                  apiRun, notifyCallbacks, delivered, runsStarted,
                  toolVars, agentVars, decoderVars, chatVars >>

\* the interval timer fires schedulerTick
TimerFire ==
  /\ schedulerInterval
  /\ TickFits
  /\ TickBody
  /\ UNCHANGED << now, tasks, nextTaskId, logs, schedulerInterval, timers, apiRun,
                  notifyCallbacks, delivered, toolVars, agentVars, decoderVars, chatVars >>

\* TickContinues without the finally block: the guard stays taken when the
\* loop ends
TickContinues_KeepsGuard ==
  IF tickQueue # << >>
    THEN /\ tickCur' = Head(tickQueue)
         /\ tickQueue' = Tail(tickQueue)
         /\ runsStarted' = runsStarted + 1
         /\ UNCHANGED isRunning
    ELSE /\ tickCur' = << >>
         /\ tickQueue' = << >>
         /\ UNCHANGED << isRunning, runsStarted >>

\* the tick goes on after processTask: the next due task's run is started, or
\* the loop ends and the guard is released
TickContinues ==
  IF tickQueue # << >>
    THEN /\ tickCur' = Head(tickQueue)
         /\ tickQueue' = Tail(tickQueue)
         /\ runsStarted' = runsStarted + 1
         /\ UNCHANGED isRunning
    ELSE /\ tickCur' = << >>
         /\ tickQueue' = << >>
         /\ isRunning' = FALSE
         /\ UNCHANGED runsStarted

\* processTask throws: schedulerTick's catch ends the loop, finally releases
\* the guard
TickAborts ==
  /\ tickCur' = << >>
  /\ tickQueue' = << >>
  /\ isRunning' = FALSE
  /\ UNCHANGED runsStarted

\* processTask after the run in flight ended with the given outcome: log row,
\* task update, notification with result.slice(0, 1000); then the tick goes
\* on.  A log row refused by the store (the task was deleted during the run)
\* and a next_run that cannot be computed throw before the notification.
TaskRunEnd(outcome) ==
  /\ tickCur # << >>
  /\ IF logTaskRunThrows(tasks, tickCur.id)
       THEN /\ UNCHANGED << tasks, logs, delivered >>
            /\ TickAborts
       ELSE /\ logs' = logTaskRun(logs, tickCur.id, outcome)
            /\ IF ProcessUpdatesThrows(tickCur)
                 THEN /\ UNCHANGED << tasks, delivered >>
                      /\ TickAborts
                 ELSE /\ tasks' = updateTask(tasks, tickCur.id,
                                    ProcessUpdates(tickCur, outcome, now))
                      /\ IF tickCur.notify
                            /\ tickCur.conversation_id # NullConversation
                           THEN \E result \in RunResults(outcome) :
                                  delivered' =
                                    notifyClients(
                                      delivered, notifyCallbacks,
                                      tickCur.conversation_id, tickCur.id,
                                      IF result < 1000 THEN result ELSE 1000)
                           ELSE UNCHANGED delivered
                      /\ TickContinues
  /\ UNCHANGED << now, nextTaskId, schedulerInterval, timers, apiRun, notifyCallbacks,
                  toolVars, agentVars, decoderVars, chatVars >>

NextSched ==
  \/ AdvanceClock
  \/ \E req \in ScheduleRequests : ScheduleTask(req)
  \/ \E id \in 1..MaxTasks : PauseTask(id)
  \/ \E id \in 1..MaxTasks : ResumeTask(id)
  \/ \E id \in 1..MaxTasks : CancelTask(id)
  \/ \E id \in 1..MaxTasks : ApiResume(id)
  \/ \E id \in 1..MaxTasks : ApiRunBegin(id)
  \/ \E outcome \in RunOutcomes : ApiRunEnd(outcome)
  \/ StartScheduler
  \/ StopScheduler
  \/ TimerFire
  \/ \E outcome \in RunOutcomes : TaskRunEnd(outcome)

SpecSched == InitSched /\ [][NextSched]_vars

\* the scheduler with pause and resume requests only: every log row is a
\* scheduler run and no task is deleted
NextLifetime ==
  \/ AdvanceClock
  \/ \E req \in ScheduleRequests : ScheduleTask(req)
  \/ \E id \in 1..MaxTasks : PauseTask(id)
  \/ \E id \in 1..MaxTasks : ResumeTask(id)
  \/ \E id \in 1..MaxTasks : ApiResume(id)
  \/ StartScheduler
  \/ StopScheduler
  \/ TimerFire
  \/ \E outcome \in RunOutcomes : TaskRunEnd(outcome)

SpecLifetime == InitSched /\ [][NextLifetime]_vars

\* ------------------------------------------------------------------------
\* Notification fan-out (lib/scheduler.ts): processTask applied to tasks with
\* and without notify flag and owning conversation, listeners coming and going
\* ------------------------------------------------------------------------

Conversations == { NullConversation, "conv-1" }

\* onTaskNotification(callback): Set.add keeps one entry per callback
onTaskNotification(cbs, l) ==
  IF \E i \in 1..Len(cbs) : cbs[i] = l THEN cbs ELSE Append(cbs, l)

\* the function onTaskNotification returns: Set.delete
removeListener(cbs, l) == SelectSeq(cbs, LAMBDA x : x # l)

V120000 == << "1", "2", "0", "0", "0", "0" >>

\* a stored active task
NotifyTaskRow(notify, conversationId, scheduleType, scheduleValue, nextRun) ==
  [schedule_type |-> scheduleType, schedule_value |-> scheduleValue,
   status |-> "active", notify |-> notify, next_run |-> nextRun,
   conversation_id |-> conversationId]

\* two stored tasks, a recurring one due from the start and a one-time one
\* due later; flag and owning conversation are the inputs
InitNotify ==
  /\ now = 0
  /\ \E n1 \in BOOLEAN, c1 \in Conversations, n2 \in BOOLEAN :
       tasks = << NotifyTaskRow(n1, c1, "interval", V120000, 0),
                  NotifyTaskRow(n2, "conv-1", "once", V60000, 60000) >>
  /\ nextTaskId = 3
  /\ logs = << >>
  /\ schedulerInterval = FALSE
  /\ timers = 0
  /\ isRunning = FALSE
  /\ tickCur = << >>
  /\ tickQueue = << >>
  /\ apiRun = << >>
  /\ notifyCallbacks = << >>
  /\ delivered = << >>
  /\ runsStarted = 0
  /\ AgentIdle
  /\ ToolIdle
  /\ DecoderIdle
  /\ ChatIdle

\* a collaborator subscribes
Subscribe(l) ==
  /\ notifyCallbacks' = onTaskNotification(notifyCallbacks, l)
  /\ UNCHANGED << now, tasks, nextTaskId, logs, schedulerInterval, timers,
                  isRunning, tickCur, tickQueue, apiRun, delivered,
                  runsStarted, toolVars, agentVars, decoderVars, chatVars >>

\* a collaborator calls the function its subscription returned
Unsubscribe(l) ==
  /\ notifyCallbacks' = removeListener(notifyCallbacks, l)
  /\ UNCHANGED << now, tasks, nextTaskId, logs, schedulerInterval, timers,
                  isRunning, tickCur, tickQueue, apiRun, delivered,
                  runsStarted, toolVars, agentVars, decoderVars, chatVars >>

NextNotify ==
  \/ AdvanceClock
  \/ \E id \in 1..(nextTaskId - 1) : CancelTask(id)
  \/ \E l \in Listeners : Subscribe(l)
  \/ \E l \in Listeners : Unsubscribe(l)
  \/ StartScheduler
  \/ TimerFire
  \/ \E outcome \in RunOutcomes : TaskRunEnd(outcome)

SpecNotify == InitNotify /\ [][NextNotify]_vars

\* ------------------------------------------------------------------------
\* Tasks created by the schedule_task capability while a listener is
\* registered (lib/tools/scheduler.ts, lib/scheduler.ts)
\* ------------------------------------------------------------------------

InitListening ==
  /\ now = 0
  /\ tasks = << >>
  /\ nextTaskId = 1
  /\ logs = << >>
  /\ schedulerInterval = FALSE
  /\ timers = 0
  /\ isRunning = FALSE
  /\ tickCur = << >>
  /\ tickQueue = << >>
  /\ apiRun = << >>
  /\ notifyCallbacks \in { << "l_first" >>, << "l_first", "l_last" >> }
  /\ delivered = << >>
  /\ runsStarted = 0
  /\ AgentIdle
  /\ ToolIdle
  /\ DecoderIdle
  /\ ChatIdle

NextListening ==
  \/ AdvanceClock
  \/ \E req \in ScheduleRequests : ScheduleTask(req)
  \/ StartScheduler
  \/ TimerFire
  \/ \E outcome \in RunOutcomes : TaskRunEnd(outcome)

SpecListening == InitListening /\ [][NextListening]_vars

\* ------------------------------------------------------------------------
\* Tick over a stored queue (lib/scheduler.ts): schedulerTick on a store that
\* already holds two tasks, as a restarted server finds it, while requests
\* pause and delete them
\* ------------------------------------------------------------------------

\* a one-time task due at the second instant and a recurring one due from
\* the start
InitTick ==
  /\ now = 0
  /\ tasks = << NotifyTaskRow(FALSE, NullConversation, "once", V60000, 60000),
                NotifyTaskRow(FALSE, NullConversation, "interval", V60300, 0) >>
  /\ nextTaskId = 3
  /\ logs = << >>
  /\ schedulerInterval = FALSE
  /\ timers = 0
  /\ isRunning = FALSE
  /\ tickCur = << >>
  /\ tickQueue = << >>
  /\ apiRun = << >>
  /\ notifyCallbacks = << >>
  /\ delivered = << >>
  /\ runsStarted = 0
  /\ AgentIdle
  /\ ToolIdle
  /\ DecoderIdle
  /\ ChatIdle

NextTick ==
  \/ AdvanceClock
  \/ \E id \in DOMAIN tasks : PauseTask(id)
  \/ \E id \in DOMAIN tasks : CancelTask(id)
  \/ StartScheduler
  \/ StopScheduler
  \/ TimerFire
  \/ \E outcome \in RunOutcomes : TaskRunEnd(outcome)

SpecTick == InitTick /\ [][NextTick]_vars

\* the same store while nothing calls stopScheduler, as in the application:
\* the timer, once created, stays
NextTimerKept ==
  \/ AdvanceClock
  \/ \E id \in DOMAIN tasks : PauseTask(id)
  \/ \E id \in DOMAIN tasks : CancelTask(id)
  \/ StartScheduler
  \/ TimerFire
  \/ \E outcome \in RunOutcomes : TaskRunEnd(outcome)

\* the interval timer keeps firing and every run in flight ends
FairSpecTick ==
  /\ InitTick
  /\ [][NextTimerKept]_vars
  /\ WF_vars(TimerFire)
  /\ WF_vars(\E outcome \in RunOutcomes : TaskRunEnd(outcome))

\* ------------------------------------------------------------------------
\* Stream decoder (lib/router.ts): callOpenRouterStream from the first
\* reader.read() to onDone.  A delta is what one "data:" line carries:
\* content, reasoning and a list of tool-call fragments, each possibly empty.
\* A tool-call fragment is [index, id, name, arguments] with "" and << >>
\* for what it does not carry.
\* ------------------------------------------------------------------------

OpenTag == << "<", "t", "h", "i", "n", "k", ">" >>

CloseTag == << "<", "/", "t", "h", "i", "n", "k", ">" >>

\* String.prototype.indexOf, positions from 1; 0 when pat does not occur
indexOf(text, pat) ==
  LET hits == { i \in 1..(Len(text) - Len(pat) + 1) :
                  SubSeq(text, i, i + Len(pat) - 1) = pat }
  IN  IF hits = { } THEN 0 ELSE CHOOSE i \in hits : \A j \in hits : i <= j

\* String.prototype.includes
includes(text, pat) == indexOf(text, pat) # 0

\* text.replace(pat, ""): the first occurrence is removed
removeFirst(text, pat) ==
  LET i == indexOf(text, pat)
  IN  IF i = 0 THEN text
      ELSE SubSeq(text, 1, i - 1) \o SubSeq(text, i + Len(pat), Len(text))

\* text.split(pat)[0]
beforeFirst(text, pat) == SubSeq(text, 1, indexOf(text, pat) - 1)

\* text.split(pat).slice(1).join(pat)
afterFirst(text, pat) ==
  SubSeq(text, indexOf(text, pat) + Len(pat), Len(text))

DecoderEvent(type, data) == [type |-> type, data |-> data]

\* mutant: reasoning mode is forgotten after the fragment that opened it
RouteText_ForgetsMode(st, text, opened) ==
  IF st.insideThinkTag /\ opened
    THEN [st EXCEPT !.events = Append(@, DecoderEvent("reasoning", text))]
    ELSE [st EXCEPT !.fullContent = @ \o text,
                    !.events = Append(@, DecoderEvent("token", text))]

\* a fragment without closing tag: reasoning while insideThinkTag, content
\* otherwise
RouteText(st, text, opened) ==
  IF st.insideThinkTag
    THEN [st EXCEPT !.events = Append(@, DecoderEvent("reasoning", text))]
    ELSE [st EXCEPT !.fullContent = @ \o text,
                    !.events = Append(@, DecoderEvent("token", text))]

\* if (delta.content) { ... }: the decoder state after a non-empty content
\* fragment, and whether the rest of the delta is skipped (continue)
HandleContent(st, content) ==
  LET opened == includes(content, OpenTag)
      text   == IF opened THEN removeFirst(content, OpenTag) ELSE content
      s1     == IF opened THEN [st EXCEPT !.insideThinkTag = TRUE] ELSE st
  IN  IF includes(text, CloseTag)
        THEN LET before == beforeFirst(text, CloseTag)
                 after  == afterFirst(text, CloseTag)
                 s2 == [s1 EXCEPT !.insideThinkTag = FALSE]
                 s3 == IF before # << >>
                         THEN [s2 EXCEPT !.events =
                                 Append(@, DecoderEvent("reasoning", before))]
                         ELSE s2
                 s4 == IF after # << >>
                         THEN [s3 EXCEPT
                                 !.fullContent = @ \o after,
                                 !.events =
                                   Append(@, DecoderEvent("token", after))]
                         ELSE s3
             IN  [st |-> s4, skip |-> TRUE]
        ELSE [st |-> RouteText(s1, text, opened), skip |-> FALSE]

\* position in the map of the entry of an index; 0 when there is none
MapPos(map, idx) ==
  IF \E i \in 1..Len(map) : map[i].index = idx
    THEN CHOOSE i \in 1..Len(map) : map[i].index = idx
    ELSE 0

\* one tool-call fragment: the entry of its index is created if missing, a
\* non-empty id or name is stored, argument text is appended
HandleToolCall(map, tc) ==
  LET m1 == IF MapPos(map, tc.index) = 0
              THEN Append(map, [index |-> tc.index, id |-> tc.id,
                                name |-> tc.name, arguments |-> << >>])
              ELSE map
      i  == MapPos(m1, tc.index)
  IN  [m1 EXCEPT ![i] =
         [@ EXCEPT !.id = IF tc.id # "" THEN tc.id ELSE @,
                   !.name = IF tc.name # "" THEN tc.name ELSE @,
                   !.arguments = @ \o tc.arguments]]

RECURSIVE HandleToolCalls(_, _)
HandleToolCalls(map, tcs) ==
  IF tcs = << >> THEN map
  ELSE HandleToolCalls(HandleToolCall(map, Head(tcs)), Tail(tcs))

\* one parsed "data:" line
DecodeDelta(st, delta) ==
  LET s1 == IF delta.reasoning # << >>
              THEN [st EXCEPT !.events =
                      Append(@, DecoderEvent("reasoning", delta.reasoning))]
              ELSE st
      c  == IF delta.content # << >>
              THEN HandleContent(s1, delta.content)
              ELSE [st |-> s1, skip |-> FALSE]
  IN  IF c.skip THEN c.st
      ELSE [c.st EXCEPT !.toolCallsMap = HandleToolCalls(@, delta.tool_calls)]

\* the lines of one reader.read(), in order
RECURSIVE DecodeLines(_, _)
DecodeLines(st, deltas) ==
  IF deltas = << >> THEN st
  ELSE DecodeLines(DecodeDelta(st, Head(deltas)), Tail(deltas))

\* the ToolCall built from a map entry
AssembledToolCall(entry) ==
  [id |-> entry.id, type |-> "function",
   function |-> [name |-> entry.name, arguments |-> entry.arguments]]

\* the final tool calls array, in the map's iteration order
AssembledToolCalls(map) ==
  [i \in 1..Len(map) |-> AssembledToolCall(map[i])]

\* the message handed to onDone
DoneMessage(content, map) ==
  [role |-> "assistant",
   content |-> IF content = << >> THEN NullText ELSE content,
   tool_calls |-> AssembledToolCalls(map)]

\* --- response streams the decoder is applied to

HelloWorld == << "h", "e", "l", "l", "o", " ", "w", "o", "r", "l", "d" >>

Answer == << "a", "n", "s", "w", "e", "r" >>

\* '<think>hello world</think>answer'
ThinkText == OpenTag \o HelloWorld \o CloseTag \o Answer

Delta(content, toolCalls) ==
  [content |-> content, reasoning |-> << >>, tool_calls |-> toolCalls]

\* all sequences over S of length 0..n
SeqsUpTo(S, n) == UNION { [1..k -> S] : k \in 0..n }

RECURSIVE Flatten(_)
Flatten(texts) ==
  IF texts = << >> THEN << >> ELSE Head(texts) \o Flatten(Tail(texts))

\* the deltas cut into transport reads: a new read starts after position i
\* for every i in cuts
RECURSIVE GroupReads(_, _, _)
GroupReads(deltas, cuts, i) ==
  IF i > Len(deltas) THEN << >>
  ELSE LET rest == GroupReads(deltas, cuts, i + 1)
       IN  IF i = Len(deltas) \/ i \in cuts
             THEN << << deltas[i] >> >> \o rest
             ELSE << << deltas[i] >> \o Head(rest) >> \o Tail(rest)

\* the example text, to be cut into at most MaxFragments fragments
SplitInput ==
  [kind |-> "split", text |-> ThinkText, frags |-> MaxFragments,
   reads |-> << >>, reasoning |-> HelloWorld, content |-> Answer]

\* streams in which the opening and the closing tag each arrive whole in a
\* fragment: content before, the opening fragment, fragments in between, the
\* closing fragment, content after; cut into reads in every way.  The fields
\* reasoning and content are the texts on either side of the tags.
WholeTagInputs ==
  { [kind |-> "whole", text |-> << >>, frags |-> 0,
     reads |-> GroupReads(
        [i \in 1..Len(pre) |-> Delta(pre[i], << >>)]
          \o << Delta(OpenTag \o openTail, << >>) >>
          \o [i \in 1..Len(mids) |-> Delta(mids[i], << >>)]
          \o << Delta(closeHead \o CloseTag \o closeTail, << >>) >>
          \o [i \in 1..Len(post) |-> Delta(post[i], << >>)],
        cuts, 1),
     reasoning |-> openTail \o Flatten(mids) \o closeHead,
     content |-> Flatten(pre) \o closeTail \o Flatten(post)] :
    pre \in SeqsUpTo({ << "p" >> }, 1),
    openTail \in { << >>, << "a" >> },
    mids \in SeqsUpTo({ << "b" >>, << "c", " ", "d" >> }, MaxMid),
    closeHead \in { << >>, << "e" >> },
    closeTail \in { << >>, << "f" >> },
    post \in SeqsUpTo({ << "g" >> }, 1),
    cuts \in SUBSET (1..(MaxMid + 3)) }

\* tool-call fragments: two indices, fragments with and without id and name,
\* and a fragment that names index 0 differently
ToolFragments ==
  { [index |-> 0, id |-> "call_a", name |-> "brave_web_search",
     arguments |-> << "{\"q\":" >>],
    [index |-> 0, id |-> "", name |-> "", arguments |-> << "\"x\"}" >>],
    [index |-> 0, id |-> "call_z", name |-> "save_memory", arguments |-> << >>],
    [index |-> 1, id |-> "call_b", name |-> "read_memory",
     arguments |-> << "{" >>],
    [index |-> 1, id |-> "", name |-> "", arguments |-> << "}" >>] }

\* deltas of a tool-call stream: a fragment alone, a fragment in the delta
\* whose content closes the reasoning block, and a delta with content only
ToolDeltas ==
  { Delta(<< >>, << f >>) : f \in ToolFragments }
    \cup { Delta(CloseTag, << f >>) :
             f \in { g \in ToolFragments : g.id = "" /\ g.index = 0 } }
    \cup { Delta(OpenTag \o << "t" >>, << >>) }

ToolInputs ==
  { [kind |-> "tools", text |-> << >>, frags |-> 0,
     reads |-> [i \in 1..Len(ds) |-> << ds[i] >>],
     reasoning |-> << >>, content |-> << >>] :
    ds \in SeqsUpTo(ToolDeltas, MaxDeltas) \ { << >> } }

DecoderInputs == { SplitInput } \cup WholeTagInputs \cup ToolInputs

\* --- the decoder as a process

DecoderState ==
  [insideThinkTag |-> insideThinkTag, fullContent |-> fullContent,
   toolCallsMap |-> toolCallsMap, events |-> dcEvents]

SetDecoderState(st) ==
  /\ insideThinkTag' = st.insideThinkTag
  /\ fullContent' = st.fullContent
  /\ toolCallsMap' = st.toolCallsMap
  /\ dcEvents' = st.events

InitDecoder ==
  /\ dcInput \in DecoderInputs
  /\ dcPending = dcInput.text
  /\ dcFragsLeft = dcInput.frags
  /\ dcStream = dcInput.reads
  /\ dcPc = "reading"
  /\ insideThinkTag = FALSE
  /\ fullContent = << >>
  /\ toolCallsMap = << >>
  /\ dcEvents = << >>
  /\ ToolIdle
  /\ AgentIdle
  /\ SchedIdle
  /\ ChatIdle

\* reader.read() returns a line whose delta carries the next n characters of
\* the content text; the last fragment allowed carries all that is left
ReceiveFragment ==
  /\ dcPc = "reading"
  /\ dcPending # << >>
  /\ \E n \in 1..Len(dcPending) :
       /\ dcFragsLeft = 1 => n = Len(dcPending)
       /\ SetDecoderState(
            DecodeLines(DecoderState,
                        << Delta(SubSeq(dcPending, 1, n), << >>) >>))
       /\ dcPending' = SubSeq(dcPending, n + 1, Len(dcPending))
  /\ dcFragsLeft' = dcFragsLeft - 1
  /\ UNCHANGED << dcInput, dcStream, dcPc, toolVars, agentVars, schedVars, chatVars >>

\* reader.read() returns the lines of the next transport read
ReceiveRead ==
  /\ dcPc = "reading"
  /\ dcStream # << >>
  /\ SetDecoderState(DecodeLines(DecoderState, Head(dcStream)))
  /\ dcStream' = Tail(dcStream)
  /\ UNCHANGED << dcInput, dcPending, dcFragsLeft, dcPc,
                  toolVars, agentVars, schedVars, chatVars >>

\* reader.read() returns done: the tool calls are built and announced, then
\* onDone
StreamEnd ==
  /\ dcPc = "reading"
  /\ dcPending = << >>
  /\ dcStream = << >>
  /\ dcPc' = "done"
  /\ dcEvents' =
       dcEvents
         \o [i \in 1..Len(toolCallsMap) |->
               DecoderEvent("tool_call", AssembledToolCall(toolCallsMap[i]))]
         \o << DecoderEvent("done", DoneMessage(fullContent, toolCallsMap)) >>
  /\ UNCHANGED << dcInput, dcPending, dcFragsLeft, dcStream, insideThinkTag,
                  fullContent, toolCallsMap, toolVars, agentVars, schedVars, chatVars >>

NextDecoder ==
  \/ ReceiveFragment
  \/ ReceiveRead
  \/ StreamEnd

SpecDecoder == InitDecoder /\ [][NextDecoder]_vars

\* --- one call of callOpenRouterStream, from the configuration checks to
\* the last callback

\* fetch(apiUrl, ...): it throws, or answers with a status that is ok or
\* not, and an ok response has a body or none
FetchOutcomes == { "throws", "ok", "no_body", "not_ok" }

\* await response.text() of a response that is not ok: the text of a 404
\* about tool use while body.tools is set, any other text, or the read of the
\* body fails and the await throws
ErrorBodyOutcomes == { "tool_use_404", "other", "fails" }

StreamCallInputs == { SplitInput } \cup ToolInputs

InitStreamCall ==
  /\ dcInput \in StreamCallInputs
  /\ dcPending = dcInput.text
  /\ dcFragsLeft = dcInput.frags
  /\ dcStream = dcInput.reads
  /\ dcPc = "start"
  /\ insideThinkTag = FALSE
  /\ fullContent = << >>
  /\ toolCallsMap = << >>
  /\ dcEvents = << >>
  /\ ToolIdle
  /\ AgentIdle
  /\ SchedIdle
  /\ ChatIdle

StreamCallOthers ==
  UNCHANGED << dcInput, dcPending, dcFragsLeft, dcStream, insideThinkTag,
               fullContent, toolCallsMap, toolVars, agentVars, schedVars,
               chatVars >>

\* params.callbacks.onError(message); return
CallOnError(message) ==
  /\ dcEvents' = Append(dcEvents, DecoderEvent("error", message))
  /\ dcPc' = "errored"

\* if (!useOllama && !useCopilot && !apiKey) / if (useCopilot && !getCopilotToken())
CheckConfigured(configured) ==
  /\ dcPc = "start"
  /\ IF configured
       THEN dcPc' = "fetch" /\ UNCHANGED dcEvents
       ELSE CallOnError("not configured")
  /\ StreamCallOthers

\* the first fetch and the fetch of the retry without tools
FetchResponse(outcome) ==
  /\ dcPc \in { "fetch", "retry_fetch" }
  /\ CASE outcome = "throws" ->
            CallOnError(IF dcPc = "fetch" THEN "Network error calling"
                                          ELSE "Network error on retry")
       [] outcome = "not_ok" ->
            /\ dcPc' = (IF dcPc = "fetch" THEN "error_body"
                                          ELSE "retry_error_body")
            /\ UNCHANGED dcEvents
       [] outcome = "no_body" ->
            CallOnError("No response stream from OpenRouter")
       [] OTHER -> dcPc' = "reading" /\ UNCHANGED dcEvents
  /\ StreamCallOthers

\* const errorText = await response.text() and the branches on it; the
\* await is outside every try block, so a failed read of the body rejects the
\* promise of callOpenRouterStream and no callback is made
ReadErrorBody(outcome) ==
  /\ dcPc \in { "error_body", "retry_error_body" }
  /\ CASE outcome = "fails" -> dcPc' = "rejected" /\ UNCHANGED dcEvents
       [] outcome = "tool_use_404" /\ dcPc = "error_body" ->
            dcPc' = "retry_fetch" /\ UNCHANGED dcEvents
       [] OTHER -> CallOnError("OpenRouter error")
  /\ StreamCallOthers

\* the lines reader.read() can return next: a line whose delta carries a
\* fragment of the content text still to come, or the lines of the next
\* transport read
NextReads ==
  { << Delta(SubSeq(dcPending, 1, n), << >>) >> :
      n \in { m \in 1..Len(dcPending) :
                dcFragsLeft = 1 => m = Len(dcPending) } }
    \cup (IF dcStream = << >> THEN { } ELSE { Head(dcStream) })

\* the events the callbacks made for these lines would add
ReadEvents(lines) ==
  LET all == DecodeLines(DecoderState, lines).events
  IN SubSeq(all, Len(dcEvents) + 1, Len(all))

\* the callbacks that have returned when the try block is left by a throw:
\* none when reader.read() throws, and fewer than all of a read's callbacks
\* when one of them throws
ThrowPrefixes ==
  { << >> }
    \cup UNION { { SubSeq(ReadEvents(lines), 1, k) :
                      k \in 0..(Len(ReadEvents(lines)) - 1) } :
                    lines \in NextReads }

\* inside the try block: reader.read() throws at any iteration, or a
\* callback made for one of the lines of a read throws; catch (err) calls
\* onError and returns, so nothing of the call is read afterwards
ReadLoopThrows ==
  /\ dcPc = "reading"
  /\ \E returned \in ThrowPrefixes :
       dcEvents' = (dcEvents \o returned)
                     \o << DecoderEvent("error", "Stream reading error") >>
  /\ dcPc' = "errored"
  /\ StreamCallOthers

\* after the try block: params.callbacks.onToolCall(toolCall) throws for the
\* k-th tool call built, or params.callbacks.onDone throws after all of them;
\* the promise of callOpenRouterStream rejects
ToolCallCallbackThrows ==
  /\ dcPc = "reading"
  /\ dcPending = << >>
  /\ dcStream = << >>
  /\ \E k \in 1..(Len(toolCallsMap) + 1) :
       dcEvents' =
         dcEvents
           \o [i \in 1..(k - 1) |->
                 DecoderEvent("tool_call", AssembledToolCall(toolCallsMap[i]))]
  /\ dcPc' = "rejected"
  /\ StreamCallOthers

NextStreamCall ==
  \/ \E configured \in BOOLEAN : CheckConfigured(configured)
  \/ \E outcome \in FetchOutcomes : FetchResponse(outcome)
  \/ \E outcome \in ErrorBodyOutcomes : ReadErrorBody(outcome)
  \/ ReceiveFragment
  \/ ReceiveRead
  \/ ReadLoopThrows
  \/ ToolCallCallbackThrows
  \/ StreamEnd

SpecStreamCall == InitStreamCall /\ [][NextStreamCall]_vars

\* ------------------------------------------------------------------------
\* Router (lib/router.ts): classifyIntent applied to messages put together
\* from pieces.  A message is a sequence of characters.
\* ------------------------------------------------------------------------

TOOL_KEYWORDS ==
  << << "s", "e", "n", "d" >>,
    << "s", "c", "h", "e", "d", "u", "l", "e" >>,
    << "p", "o", "s", "t" >>,
    << "c", "r", "e", "a", "t", "e", " ", "t", "a", "s", "k" >>,
    << "r", "e", "m", "i", "n", "d" >>,
    << "t", "e", "l", "e", "g", "r", "a", "m" >>,
    << "d", "i", "s", "c", "o", "r", "d" >>,
    << "s", "l", "a", "c", "k" >>,
    << "w", "e", "b", "h", "o", "o", "k" >>,
    << "h", "t", "t", "p", " ", "r", "e", "q", "u", "e", "s", "t" >>,
    << "a", "p", "i", " ", "c", "a", "l", "l" >>,
    << "s", "e", "t", " ", "a", " ", "r", "e", "m", "i", "n", "d", "e", "r" >>,
    << "c", "a", "n", "c", "e", "l", " ", "t", "a", "s", "k" >>,
    << "p", "a", "u", "s", "e", " ", "t", "a", "s", "k" >>,
    << "r", "e", "s", "u", "m", "e", " ", "t", "a", "s", "k" >>,
    << "r", "e", "m", "e", "m", "b", "e", "r" >>,
    << "s", "a", "v", "e", " ", "t", "o", " ", "m", "e", "m", "o", "r", "y" >> >>

RESEARCH_KEYWORDS ==
  << << "s", "e", "a", "r", "c", "h" >>,
    << "f", "i", "n", "d" >>,
    << "l", "a", "t", "e", "s", "t" >>,
    << "n", "e", "w", "s" >>,
    << "p", "r", "i", "c", "e" >>,
    << "l", "o", "o", "k", " ", "u", "p" >>,
    << "b", "r", "o", "w", "s", "e" >>,
    << "o", "p", "e", "n", " ", "t", "h", "e", " ", "p", "a", "g", "e" >>,
    << "g", "o", " ", "t", "o" >>,
    << "v", "i", "s", "i", "t" >>,
    << "w", "h", "a", "t", " ", "i", "s", " ", "t", "h", "e", " ", "c", "u", "r", "r", "e", "n", "t" >>,
    << "w", "h", "o", " ", "w", "o", "n" >>,
    << "t", "r", "e", "n", "d", "i", "n", "g" >> >>

LONG_RUNNING_KEYWORDS ==
  << << "m", "o", "n", "i", "t", "o", "r" >>,
    << "e", "v", "e", "r", "y", " ", "d", "a", "y" >>,
    << "e", "v", "e", "r", "y", " ", "h", "o", "u", "r" >>,
    << "e", "v", "e", "r", "y", " ", "m", "i", "n", "u", "t", "e" >>,
    << "r", "e", "c", "u", "r", "r", "i", "n", "g" >>,
    << "k", "e", "e", "p", " ", "c", "h", "e", "c", "k", "i", "n", "g" >>,
    << "d", "a", "i", "l", "y" >>,
    << "w", "e", "e", "k", "l", "y" >>,
    << "c", "r", "o", "n" >> >>

TaskTypes ==
  { "SIMPLE_QA", "TOOL_TASK", "RESEARCH_TASK", "COMPLEX_REASONING",
    "LONG_RUNNING" }

UpperLetters ==
  << "A", "B", "C", "D", "E", "F", "G", "H", "I", "J", "K", "L", "M",
     "N", "O", "P", "Q", "R", "S", "T", "U", "V", "W", "X", "Y", "Z" >>

LowerLetters ==
  << "a", "b", "c", "d", "e", "f", "g", "h", "i", "j", "k", "l", "m",
     "n", "o", "p", "q", "r", "s", "t", "u", "v", "w", "x", "y", "z" >>

\* String.prototype.toLowerCase on the letters used here
toLowerCase(text) ==
  [i \in 1..Len(text) |->
     IF \E k \in 1..26 : UpperLetters[k] = text[i]
       THEN LowerLetters[CHOOSE k \in 1..26 : UpperLetters[k] = text[i]]
       ELSE text[i]]

WhiteSpace == { " ", "\n", "\t" }

\* String.prototype.trim
RECURSIVE trimStart(_)
trimStart(text) ==
  IF text # << >> /\ Head(text) \in WhiteSpace THEN trimStart(Tail(text))
  ELSE text

RECURSIVE trimEnd(_)
trimEnd(text) ==
  IF text # << >> /\ text[Len(text)] \in WhiteSpace
    THEN trimEnd(SubSeq(text, 1, Len(text) - 1))
    ELSE text

trim(text) == trimEnd(trimStart(text))

\* String.prototype.startsWith and endsWith
startsWith(text, pat) ==
  Len(pat) <= Len(text) /\ SubSeq(text, 1, Len(pat)) = pat

endsWith(text, pat) ==
  Len(pat) <= Len(text)
    /\ SubSeq(text, Len(text) - Len(pat) + 1, Len(text)) = pat

\* for (const keyword of KEYWORDS) if (lower.includes(keyword)) return
matchesAny(lower, keywords) ==
  \E k \in 1..Len(keywords) : includes(lower, keywords[k])

QuestionPrefixes ==
  << << "w", "h", "a", "t" >>,
     << "w", "h", "o" >>,
     << "h", "o", "w" >>,
     << "w", "h", "y" >>,
     << "w", "h", "e", "n" >>,
     << "w", "h", "e", "r", "e" >>,
     << "i", "s", " " >>,
     << "a", "r", "e", " " >>,
     << "c", "a", "n", " " >>,
     << "d", "o", "e", "s", " " >>,
     << "d", "o", " " >> >>

\* mutant: only a trailing question mark makes a question
isQuestion_MarkOnly(lower) == endsWith(lower, << "?" >>)

\* const isQuestion = lower.endsWith("?") || lower.startsWith("what") || ...
isQuestion(lower) ==
  \/ endsWith(lower, << "?" >>)
  \/ \E k \in 1..Len(QuestionPrefixes) : startsWith(lower, QuestionPrefixes[k])

\* mutant: the tool keywords are looked at before the long-running ones
classifyIntent_ToolFirst(message) ==
  LET lower == trim(toLowerCase(message))
  IN  IF matchesAny(lower, TOOL_KEYWORDS) THEN "TOOL_TASK"
      ELSE IF matchesAny(lower, LONG_RUNNING_KEYWORDS) THEN "LONG_RUNNING"
      ELSE IF matchesAny(lower, RESEARCH_KEYWORDS) THEN "RESEARCH_TASK"
      ELSE IF Len(message) < 120 /\ isQuestion(lower) THEN "SIMPLE_QA"
      ELSE "COMPLEX_REASONING"

\* classifyIntent(message).taskType
classifyIntent(message) ==
  LET lower == trim(toLowerCase(message))
  IN  IF matchesAny(lower, LONG_RUNNING_KEYWORDS) THEN "LONG_RUNNING"
      ELSE IF matchesAny(lower, TOOL_KEYWORDS) THEN "TOOL_TASK"
      ELSE IF matchesAny(lower, RESEARCH_KEYWORDS) THEN "RESEARCH_TASK"
      ELSE IF Len(message) < 120 /\ isQuestion(lower) THEN "SIMPLE_QA"
      ELSE "COMPLEX_REASONING"

\* 116 characters without keyword
Filler == [i \in 1..116 |-> "x"]

\* pieces of messages: keywords of the three lists in several letter cases,
\* question prefixes and the question mark, blanks, and text without keyword
MessagePieces ==
  { << "M", "o", "n", "i", "t", "o", "r" >>,
    << "D", "A", "I", "L", "Y" >>,
    << "s", "e", "n", "d" >>,
    << "R", "e", "m", "i", "n", "d", " ", "m", "e" >>,
    << "s", "e", "a", "r", "c", "h" >>,
    << "L", "a", "t", "e", "s", "t" >>,
    << "W", "h", "a", "t" >>,
    << "i", "s", " " >>,
    << "?" >>,
    << " " >>,
    << "t", "e", "l", "l", " ", "m", "e" >>,
    Filler }

\* messages of at most MaxPieces pieces
Messages == { Flatten(ps) : ps \in SeqsUpTo(MessagePieces, MaxPieces) }

InitRouter ==
  /\ chMessage \in Messages
  /\ taskType = NoTaskType
  /\ plContent = << >>
  /\ timeline = NoTimeline
  /\ chPc = "routing"
  /\ ChatRunIdle
  /\ ToolIdle
  /\ AgentIdle
  /\ SchedIdle
  /\ DecoderIdle

\* const classification = await classifyIntent(message)
Classify ==
  /\ taskType = NoTaskType
  /\ taskType' = classifyIntent(chMessage)
  /\ UNCHANGED << chMessage, plContent, timeline, chPc, chatRunVars, toolVars,
                  agentVars, schedVars, decoderVars >>

NextRouter == Classify

SpecRouter == InitRouter /\ [][NextRouter]_vars

\* ------------------------------------------------------------------------
\* Planner (lib/planner.ts): parseTimeline applied to planner outputs.  An
\* output is a sequence of tokens: the punctuation of JSON, white space,
\* string literals (quotes included), numbers, null, and pieces of plain
\* text; the output text is their concatenation.  String literals and plain
\* text hold no brace, bracket or quote of their own.
\* ------------------------------------------------------------------------

JsonWhiteSpace == { " ", "\n" }

JsonStrings ==
  { "\"steps\"", "\"id\"", "\"title\"", "\"action\"", "\"description\"",
    "\"Search\"", "\"search\"", "\"find X\"", "\"Answer\"",
    "\"final_answer\"", "\"reply\"", "\"1\"", "\"note\"", "\"\"" }

JsonNumbers == { "0", "1", "2" }

\* a JSON value: t is its type, v the literal of a number or string, items
\* the elements of an array or the members of an object, k the key under
\* which the value is a member of an object
JsonValue(t, v, items) == [t |-> t, v |-> v, k |-> "", items |-> items]

JsonNull == JsonValue("null", "", << >>)

Undefined == JsonValue("undefined", "", << >>)

ParseFailed == [ok |-> FALSE, val |-> Undefined, next |-> 0]

RECURSIVE SkipWhiteSpace(_, _)
SkipWhiteSpace(toks, i) ==
  IF i <= Len(toks) /\ toks[i] \in JsonWhiteSpace
    THEN SkipWhiteSpace(toks, i + 1)
    ELSE i

RECURSIVE ParseValue(_, _)
RECURSIVE ParseItems(_, _, _)
RECURSIVE ParseMembers(_, _, _)

\* the elements of an array after "[" or after a comma, up to "]"
ParseItems(toks, i, acc) ==
  LET e == ParseValue(toks, i)
      j == SkipWhiteSpace(toks, e.next)
  IN  IF ~e.ok \/ j > Len(toks) THEN ParseFailed
      ELSE IF toks[j] = "," THEN ParseItems(toks, j + 1, Append(acc, e.val))
      ELSE IF toks[j] = "]"
        THEN [ok |-> TRUE, val |-> JsonValue("array", "", Append(acc, e.val)),
              next |-> j + 1]
      ELSE ParseFailed

\* the members of an object after "{" or after a comma, up to "}"
ParseMembers(toks, i, acc) ==
  LET kpos == SkipWhiteSpace(toks, i)
      cpos == SkipWhiteSpace(toks, kpos + 1)
  IN  IF cpos > Len(toks) \/ toks[kpos] \notin JsonStrings \/ toks[cpos] # ":"
        THEN ParseFailed
      ELSE LET e == ParseValue(toks, cpos + 1)
               j == SkipWhiteSpace(toks, e.next)
               m == [e.val EXCEPT !.k = toks[kpos]]
           IN  IF ~e.ok \/ j > Len(toks) THEN ParseFailed
               ELSE IF toks[j] = ","
                 THEN ParseMembers(toks, j + 1, Append(acc, m))
               ELSE IF toks[j] = "}"
                 THEN [ok |-> TRUE,
                       val |-> JsonValue("object", "", Append(acc, m)),
                       next |-> j + 1]
               ELSE ParseFailed

\* one JSON value starting at or after position i
ParseValue(toks, i) ==
  LET j == SkipWhiteSpace(toks, i)
  IN  IF j > Len(toks) THEN ParseFailed
      ELSE IF toks[j] \in JsonStrings
        THEN [ok |-> TRUE, val |-> JsonValue("string", toks[j], << >>),
              next |-> j + 1]
      ELSE IF toks[j] \in JsonNumbers
        THEN [ok |-> TRUE, val |-> JsonValue("number", toks[j], << >>),
              next |-> j + 1]
      ELSE IF toks[j] = "null"
        THEN [ok |-> TRUE, val |-> JsonNull, next |-> j + 1]
      ELSE IF toks[j] = "["
        THEN LET c == SkipWhiteSpace(toks, j + 1)
             IN  IF c <= Len(toks) /\ toks[c] = "]"
                   THEN [ok |-> TRUE, val |-> JsonValue("array", "", << >>),
                         next |-> c + 1]
                   ELSE ParseItems(toks, j + 1, << >>)
      ELSE IF toks[j] = "{"
        THEN LET c == SkipWhiteSpace(toks, j + 1)
             IN  IF c <= Len(toks) /\ toks[c] = "}"
                   THEN [ok |-> TRUE, val |-> JsonValue("object", "", << >>),
                         next |-> c + 1]
                   ELSE ParseMembers(toks, j + 1, << >>)
      ELSE ParseFailed

\* JSON.parse(text): ok = FALSE when it throws
JsonParse(toks) ==
  LET r == ParseValue(toks, 1)
  IN  IF r.ok /\ SkipWhiteSpace(toks, r.next) > Len(toks)
        THEN [ok |-> TRUE, val |-> r.val]
        ELSE [ok |-> FALSE, val |-> Undefined]

\* value.key: the last member with that key; undefined when there is none or
\* the value is no object (reading a property of null throws, see the callers)
GetProperty(value, key) ==
  LET hits == IF value.t = "object"
                THEN { i \in 1..Len(value.items) : value.items[i].k = key }
                ELSE { }
  IN  IF hits = { } THEN Undefined
      ELSE [value.items[CHOOSE i \in hits : \A j \in hits : j <= i]
              EXCEPT !.k = ""]

\* JavaScript truthiness
Truthy(value) ==
  CASE value.t \in { "undefined", "null" } -> FALSE
    [] value.t = "number" -> value.v # "0"
    [] value.t = "string" -> value.v # "\"\""
    [] OTHER -> TRUE

Max(S) == CHOOSE x \in S : \A y \in S : y <= x

Min(S) == CHOOSE x \in S : \A y \in S : x <= y

\* positions q of a "[" that ends "steps"\s*:\s*\[ begun after position i
StepsOpenings(toks, i) ==
  { q \in 1..Len(toks) :
      /\ toks[q] = "["
      /\ \E p \in (i + 1)..(q - 1) :
           /\ toks[p] = "\"steps\""
           /\ LET c == SkipWhiteSpace(toks, p + 1)
              IN  /\ c < q
                  /\ toks[c] = ":"
                  /\ SkipWhiteSpace(toks, c + 1) = q }

\* positions e of a "}" that ends \]\s*\} begun after position q
ClosingsAfter(toks, q) ==
  { e \in 1..Len(toks) :
      /\ toks[e] = "}"
      /\ \E r \in (q + 1)..(e - 1) :
           toks[r] = "]" /\ SkipWhiteSpace(toks, r + 1) = e }

\* content.match(/\{[\s\S]*"steps"\s*:\s*\[[\s\S]*\]\s*\}/): the leftmost
\* "{" from which the pattern matches, up to the last closing it can reach;
\* << >> when there is no match
MatchStepsObject(toks) ==
  LET ends(i) == UNION { ClosingsAfter(toks, q) : q \in StepsOpenings(toks, i) }
      starts  == { i \in 1..Len(toks) : toks[i] = "{" /\ ends(i) # { } }
  IN  IF starts = { } THEN << >>
      ELSE SubSeq(toks, Min(starts), Max(ends(Min(starts))))

\* content.match(/\[[\s\S]*\]/): the first "[" up to the last "]" after it
MatchArray(toks) ==
  LET opens == { i \in 1..Len(toks) : toks[i] = "[" }
      closes == { i \in 1..Len(toks) : toks[i] = "]" }
  IN  IF opens = { } \/ { c \in closes : c > Min(opens) } = { } THEN << >>
      ELSE SubSeq(toks, Min(opens), Max(closes))

\* the test of parsed.steps.filter
ValidStep(s) ==
  /\ GetProperty(s, "\"id\"").t = "number"
  /\ GetProperty(s, "\"title\"").t = "string"
  /\ GetProperty(s, "\"action\"").t = "string"
  /\ GetProperty(s, "\"description\"").t = "string"

\* the first try block of parseTimeline: done when it returns a plan; no
\* match, a JSON.parse that throws, steps missing or empty, a null step (the
\* filter throws on s.id) and no valid step all lead to the fallback
ParseStepsObject(content) ==
  LET m == MatchStepsObject(content)
      parsed == JsonParse(m)
      steps == GetProperty(parsed.val, "\"steps\"")
  IN  IF m = << >> THEN [done |-> FALSE, steps |-> << >>]
      ELSE IF ~parsed.ok THEN [done |-> FALSE, steps |-> << >>]
      ELSE IF ~(steps.t = "array" /\ Len(steps.items) > 0)
        THEN [done |-> FALSE, steps |-> << >>]
      ELSE IF \E i \in 1..Len(steps.items) : steps.items[i].t = "null"
        THEN [done |-> FALSE, steps |-> << >>]
      ELSE LET validSteps == SelectSeq(steps.items, ValidStep)
           IN  [done |-> validSteps # << >>, steps |-> validSteps]

\* the second try block: any JSON array whose first element has a truthy id
\* and title is returned as it is
ParseAnyArray(content) ==
  LET m == MatchArray(content)
      arr == JsonParse(m)
  IN  IF m = << >> THEN NoTimeline
      ELSE IF ~arr.ok THEN NoTimeline
      ELSE IF ~(arr.val.t = "array" /\ Len(arr.val.items) > 0) THEN NoTimeline
      ELSE IF arr.val.items[1].t = "null" THEN NoTimeline
      ELSE IF /\ Truthy(GetProperty(arr.val.items[1], "\"id\""))
              /\ Truthy(GetProperty(arr.val.items[1], "\"title\""))
        THEN [plan |-> TRUE, steps |-> arr.val.items]
      ELSE NoTimeline

\* parseTimeline(content)
parseTimeline(content) ==
  LET first == ParseStepsObject(content)
  IN  IF first.done THEN [plan |-> TRUE, steps |-> first.steps]
      ELSE ParseAnyArray(content)

\* --- planner outputs parseTimeline is applied to

StepTokens(id, title, action, description) ==
  << "{", "\"id\"", ":", id, ",", "\"title\"", ":", title, ",",
     "\"action\"", ":", action, ",", "\"description\"", ":", description,
     "}" >>

\* {"id":1,"title":"Search","action":"search","description":"find X"}
SearchStep == StepTokens("1", "\"Search\"", "\"search\"", "\"find X\"")

\* {"id":2,"title":"Answer","action":"final_answer","description":"reply"}
AnswerStep == StepTokens("2", "\"Answer\"", "\"final_answer\"", "\"reply\"")

\* the id is a string
StringIdStep == StepTokens("\"1\"", "\"Search\"", "\"search\"", "\"find X\"")

\* no description
NoDescriptionStep ==
  << "{", "\"id\"", ":", "1", ",", "\"title\"", ":", "\"Search\"", ",",
     "\"action\"", ":", "\"search\"", "}" >>

NullStep == << "null" >>

\* the description is the empty string
EmptyDescriptionStep == StepTokens("1", "\"Search\"", "\"search\"", "\"\"")

StepVariants ==
  { SearchStep, AnswerStep, StringIdStep, NoDescriptionStep, NullStep,
    EmptyDescriptionStep }

RECURSIVE JoinComma(_)
JoinComma(parts) ==
  IF parts = << >> THEN << >>
  ELSE IF Len(parts) = 1 THEN parts[1]
  ELSE parts[1] \o << "," >> \o JoinComma(Tail(parts))

\* {"steps":[ ... ]}
StepsObject(steps) ==
  << "{", "\"steps\"", ":", "[" >> \o JoinComma(steps) \o << "]", "}" >>

\* the same object with a note member and white space between the tokens
SpacedStepsObject(steps) ==
  << "{", "\n", " ", "\"note\"", ":", "\"reply\"", ",", "\n", " ",
     "\"steps\"", " ", ":", " ", "[" >>
    \o JoinComma(steps) \o << "]", "\n", "}" >>

\* the array alone
StepsArray(steps) == << "[" >> \o JoinComma(steps) \o << "]" >>

\* the object cut off before its closing bracket
CutStepsObject(steps) ==
  << "{", "\"steps\"", ":", "[" >> \o JoinComma(steps)

\* text before the JSON: none, plain, with braces, with brackets, with both
ReasoningTexts ==
  { << >>,
    << "Let me think. " >>,
    << "Use ", "{", "tools", "}", " " >>,
    << "See ", "[", "1", "]", " " >>,
    << "Use ", "{", "tools", "}", " see ", "[", "1", "]", " " >> }

TrailingTexts == { << >>, << "\n", "Done." >> }

PlannerOutputs ==
  { pre \o body \o post :
      pre \in ReasoningTexts,
      body \in UNION { { StepsObject(steps), SpacedStepsObject(steps),
                         StepsArray(steps), CutStepsObject(steps) } :
                       steps \in SeqsUpTo(StepVariants, MaxSteps) },
      post \in TrailingTexts }

InitPlanner ==
  /\ chMessage = << >>
  /\ taskType = "COMPLEX_REASONING"
  /\ plContent \in PlannerOutputs
  /\ timeline = NoTimeline
  /\ chPc = "planning"
  /\ ChatRunIdle
  /\ ToolIdle
  /\ AgentIdle
  /\ SchedIdle
  /\ DecoderIdle

\* runPlannerStreaming after the model call: const timeline =
\* parseTimeline(fullContent)
ParseTimeline ==
  /\ chPc = "planning"
  /\ timeline' = parseTimeline(plContent)
  /\ chPc' = "planned"
  /\ UNCHANGED << chMessage, taskType, plContent, chatRunVars, toolVars,
                  agentVars, schedVars, decoderVars >>

NextPlanner == ParseTimeline

SpecPlanner == InitPlanner /\ [][NextPlanner]_vars

\* ------------------------------------------------------------------------
\* Chat turn specification: POST of app/api/chat/route.ts from the router
\* stage to the closing of the response stream, for every planner outcome
\* and every outcome of the Step Executor runs it starts
\* ------------------------------------------------------------------------

\* const MAX_RETRIES = 1
MAX_RETRIES == 1

\* controller.enqueue(encoder.encode(`data: [DONE]\n\n`))
Sentinel == Event("[DONE]", "")

\* the data of the error event of the outer catch (error.message) and of a
\* step whose retry failed too ("Step ... failed: ... Continuing...")
ThrownMessage == "message"

StepFailedMessage == "Continuing..."

\* one runAgentLoopStreaming call seen from its caller: the events it hands
\* to onEvent, oldest first, and whether its promise rejects. A final answer;
\* a tool round followed by a final answer; a transport error of the first
\* model call before anything was streamed; a stream that breaks after a
\* content delta; a tool round whose next model call fails.
StepRunOutcomes ==
  { [events |-> << Event("token", ""), Event("done", "") >>,
     throws |-> FALSE],
    [events |-> << Event("reasoning", ""), Event("tool_start", ""),
                   Event("tool_end", ""), Event("token", ""),
                   Event("done", "") >>,
     throws |-> FALSE],
    [events |-> << >>, throws |-> TRUE],
    [events |-> << Event("token", "") >>, throws |-> TRUE],
    [events |-> << Event("reasoning", ""), Event("tool_start", ""),
                   Event("tool_end", "") >>,
     throws |-> TRUE] }

\* reasoning fragments the planner's model call streams: none or one
PlannerReasoning == { << >>, << Event("reasoning", "") >> }

\* a run started by the turn and whether it has rejected: runDirectExecution
\* is given the user's message, a step run the message of step i
DirectRunOf(failed) == [kind |-> "direct", step |-> 0, failed |-> failed]

StepRunOf(i, failed) == [kind |-> "step", step |-> i, failed |-> failed]

\* the user-role row of the user's message and the one of a step's message
UserMessageRow == "message"

StepMessageRow == "step message"

\* runAgentLoopStreaming called with stepContext: step.description; the run
\* saves its user message unless options.stepContext is truthy
RunUserRows(step) ==
  IF Truthy(GetProperty(step, "\"description\"")) THEN << >>
  ELSE << StepMessageRow >>

\* the message of the request body: "What?", "search" and "" (or none)
ChatMessages ==
  { << "W", "h", "a", "t", "?" >>,
    << "s", "e", "a", "r", "c", "h" >>,
    << >> }

\* the planner outputs a turn is run on: the object, the array and the
\* cut-off object with no text around them, of valid steps, steps without
\* description, null steps and steps with an empty description
ChatStepVariants ==
  { SearchStep, AnswerStep, NoDescriptionStep, NullStep, EmptyDescriptionStep }

ChatPlannerOutputs ==
  UNION { { StepsObject(steps), StepsArray(steps), CutStepsObject(steps) } :
          steps \in SeqsUpTo(ChatStepVariants, MaxSteps) }

\* a request to a freshly loaded server, before POST is called: no task is
\* stored and no route has started the scheduler yet (schedulerStarted is
\* false)
InitChat ==
  /\ chMessage \in ChatMessages
  /\ taskType = NoTaskType
  /\ \/ plError = TRUE /\ plContent = << >>
     \/ plError = FALSE /\ plContent \in ChatPlannerOutputs
  /\ timeline = NoTimeline
  /\ chPc = "request"
  /\ chEvents = << >>
  /\ chStep = 0
  /\ retryCount = 0
  /\ chRuns = << >>
  /\ chUserRows = << >>
  /\ chRun = << >>
  /\ ToolIdle
  /\ AgentIdle
  /\ SchedIdle
  /\ DecoderIdle

ChatOthers == << toolVars, agentVars, schedVars, decoderVars >>

\* what the code of POST between two awaits works on: the stream, the step
\* loop's position and counter, the runs started and the rows stored
Turn ==
  [pc |-> chPc, events |-> chEvents, step |-> chStep, retry |-> retryCount,
   runs |-> chRuns, rows |-> chUserRows]

\* the turn is left as t at the next await (or closed); no run has emitted yet
Becomes(t) ==
  /\ chPc' = t.pc
  /\ chEvents' = t.events
  /\ chStep' = t.step
  /\ retryCount' = t.retry
  /\ chRuns' = t.runs
  /\ chUserRows' = t.rows
  /\ chRun' = << >>

\* emitSSE(controller, encoder, event)
emitSSE(t, event) == [t EXCEPT !.events = Append(@, event)]

\* the outer catch: the error event with error.message
OuterCatch(t) == emitSSE(t, Event("error", ThrownMessage))

\* the finally block: the sentinel, then controller.close()
Finally(t) == [emitSSE(t, Sentinel) EXCEPT !.pc = "closed"]

\* runDirectExecution up to the first await of its run: the run stores the
\* user's message and calls the model
runDirectExecution(t) ==
  [t EXCEPT !.runs = Append(@, DirectRunOf(FALSE)),
            !.rows = Append(@, UserMessageRow),
            !.pc = "direct_run"]

\* runAgentLoopStreaming for step i of the plan tl, up to its first await
CallStepRun(t, tl, i) ==
  [t EXCEPT !.runs = Append(@, StepRunOf(i, FALSE)),
            !.rows = @ \o RunUserRows(tl.steps[i]),
            !.pc = "step_run"]

\* the step loop from step i up to the next await: past the last step the
\* finally block; else the step_start event with step.title and step.id,
\* let retryCount = 0 and the first run of the step. Reading a property of a
\* null step throws a TypeError outside the inner try: outer catch, finally.
StepLoop(t, tl, i) ==
  IF i > Len(tl.steps)
    THEN Finally(t)
    ELSE IF tl.steps[i].t = "null"
      THEN Finally(OuterCatch(t))
      ELSE CallStepRun(
             [emitSSE(t, Event("step_start",
                               GetProperty(tl.steps[i], "\"title\"").v))
                EXCEPT !.step = i, !.retry = 0],
             tl, i)

\* ensureScheduler() at the top of POST: startScheduler() on the first call,
\* which creates the timer and runs a tick at once. No task is stored during
\* the turn, so this tick and the timer's later ones find nothing due.
ensureScheduler ==
  /\ IF schedulerInterval
       THEN UNCHANGED << schedulerInterval, timers, isRunning, tickCur,
                         tickQueue, runsStarted >>
       ELSE /\ schedulerInterval' = TRUE
            /\ timers' = timers + 1
            /\ TickBody
  /\ UNCHANGED << now, tasks, nextTaskId, logs, apiRun, notifyCallbacks,
                  delivered >>

\* POST up to its first await: ensureScheduler(), then the request body is
\* awaited (await request.json())
PostEntry ==
  /\ chPc = "request"
  /\ ensureScheduler
  /\ chPc' = "routing"
  /\ UNCHANGED << chMessage, taskType, plContent, timeline, chatRunVars,
                  toolVars, agentVars, decoderVars >>

\* POST once the body has arrived, up to the first await after STAGE 1:
\* if (!message) the 400 response is returned, with no stream and no event;
\* else the stream is made, classifyIntent, the router_result event, and the
\* branch on SIMPLE_QA: the direct run is started, or the planner's model
\* call is
RouterStage ==
  /\ chPc = "routing"
  /\ IF chMessage = << >>
       THEN /\ Becomes([Turn EXCEPT !.pc = "rejected"])
            /\ UNCHANGED taskType
       ELSE /\ taskType' = classifyIntent(chMessage)
            /\ LET routed == emitSSE(Turn, Event("router_result", taskType'))
               IN  IF taskType' = "SIMPLE_QA"
                     THEN Becomes(runDirectExecution(routed))
                     ELSE Becomes([routed EXCEPT !.pc = "planning"])
  /\ UNCHANGED << chMessage, plContent, timeline, plError, ChatOthers >>

\* the events of the turn after the router_result event
AfterRouterResult == SubSeq(chEvents, 2, Len(chEvents))

\* onReasoning of runPlannerStreaming: a reasoning fragment of the planner's
\* model call is written to the stream while the call is being read
PlannerStreams ==
  /\ chPc = "planning"
  /\ \E reasoning \in PlannerReasoning :
       /\ Len(AfterRouterResult) < Len(reasoning)
       /\ SubSeq(reasoning, 1, Len(AfterRouterResult)) = AfterRouterResult
       /\ chEvents' = Append(chEvents, reasoning[Len(AfterRouterResult) + 1])
  /\ UNCHANGED << chMessage, taskType, plContent, timeline, chPc, plError,
                  chStep, retryCount, chRuns, chUserRows, chRun, ChatOthers >>

\* STAGE 2 once the planner's model call has ended: runPlannerStreaming
\* returns null after a transport error, else parseTimeline of the content
\* with the timeline event when it is a plan; then the branch on
\* !timeline || timeline.steps.length === 0: the direct run, or
\* db.addMessage(convId, "user", message) and the step loop
PlannerStage ==
  /\ chPc = "planning"
  /\ timeline' = IF plError THEN NoTimeline ELSE parseTimeline(plContent)
  /\ IF ~timeline'.plan
       THEN Becomes(runDirectExecution(Turn))
       ELSE LET planned == emitSSE(Turn, Event("timeline", ""))
            IN  IF Len(timeline'.steps) = 0
                  THEN Becomes(runDirectExecution(planned))
                  ELSE Becomes(StepLoop(
                         [planned EXCEPT !.rows = Append(@, UserMessageRow)],
                         timeline', 1))
  /\ UNCHANGED << chMessage, taskType, plContent, plError, ChatOthers >>

\* the onEvent callback handed to the run in flight: an event the run emits
\* before it ends is written to the stream
RunEmits ==
  /\ chPc \in { "direct_run", "step_run" }
  /\ \E o \in StepRunOutcomes :
       /\ Len(chRun) < Len(o.events)
       /\ SubSeq(o.events, 1, Len(chRun)) = chRun
       /\ o.events[Len(chRun) + 1].type # "done"
       /\ chRun' = Append(chRun, o.events[Len(chRun) + 1])
       /\ chEvents' = Append(chEvents, o.events[Len(chRun) + 1])
  /\ UNCHANGED << chMessage, taskType, plContent, timeline, chPc, plError,
                  chStep, retryCount, chRuns, chUserRows, ChatOthers >>

\* the run in flight ends as o: it rejects after the events it has emitted,
\* or it emits the done event and resolves
RunEndsAs(o) ==
  IF o.throws THEN o.events = chRun
  ELSE o.events = Append(chRun, Event("done", ""))

\* the turn when the run in flight has ended as o
RunEnded(o) ==
  [Turn EXCEPT !.runs[Len(chRuns)].failed = o.throws,
               !.events = IF o.throws THEN @ ELSE Append(@, Event("done", ""))]

\* the run of runDirectExecution ends; when it rejects the outer catch
\* writes the error event; the finally block writes the sentinel and closes
\* the stream
DirectRunEnds ==
  /\ chPc = "direct_run"
  /\ \E o \in StepRunOutcomes :
       /\ RunEndsAs(o)
       /\ IF o.throws
            THEN Becomes(Finally(OuterCatch(RunEnded(o))))
            ELSE Becomes(Finally(RunEnded(o)))
  /\ UNCHANGED << chMessage, taskType, plContent, timeline, plError,
                  ChatOthers >>

\* StepRunEnds with the error event written in the catch block before the
\* test of retryCount, so after every failed run
StepRunEnds_ErrorEachAttempt ==
  /\ chPc = "step_run"
  /\ \E o \in StepRunOutcomes :
       /\ RunEndsAs(o)
       /\ IF ~o.throws
            THEN Becomes(StepLoop(RunEnded(o), timeline, chStep + 1))
            ELSE LET caught == emitSSE([RunEnded(o) EXCEPT !.retry = @ + 1],
                                       Event("error", StepFailedMessage))
                 IN  IF caught.retry > MAX_RETRIES
                       THEN Becomes(StepLoop(caught, timeline, chStep + 1))
                       ELSE Becomes(CallStepRun(caught, timeline, chStep))
  /\ UNCHANGED << chMessage, taskType, plContent, timeline, plError,
                  ChatOthers >>

\* the run of a step ends, inside while (retryCount <= MAX_RETRIES): break
\* on success and the loop goes to the next step; on a rejection
\* retryCount++ and, once it exceeds MAX_RETRIES, the step's error event and
\* break, else the step's run is started again
StepRunEnds ==
  /\ chPc = "step_run"
  /\ \E o \in StepRunOutcomes :
       /\ RunEndsAs(o)
       /\ IF ~o.throws
            THEN Becomes(StepLoop(RunEnded(o), timeline, chStep + 1))
            ELSE LET caught == [RunEnded(o) EXCEPT !.retry = @ + 1]
                 IN  IF caught.retry > MAX_RETRIES
                       THEN Becomes(StepLoop(
                              emitSSE(caught, Event("error", StepFailedMessage)),
                              timeline, chStep + 1))
                       ELSE Becomes(CallStepRun(caught, timeline, chStep))
  /\ UNCHANGED << chMessage, taskType, plContent, timeline, plError,
                  ChatOthers >>

NextChat ==
  \/ PostEntry
  \/ TimerFire
  \/ RouterStage
  \/ PlannerStreams
  \/ PlannerStage
  \/ RunEmits
  \/ DirectRunEnds
  \/ StepRunEnds

SpecChat == InitChat /\ [][NextChat]_vars

\* ------------------------------------------------------------------------
\* Claims about the registry and the Step Executor
\* ------------------------------------------------------------------------

HasNotice(text) == \E i \in 1..Len(text) : text[i] = TruncationNotice[1]

RunStopped == agPc \in { "done", "failed" }

\* a wait on a model call that the call has left without onDone and without
\* onError: this model call does not return to the loop
ModelCallUnsettled == agPc = "unsettled"

\* C1: a run issues at most MAX_TOOL_LOOPS model invocations and, when every
\* model call and dispatch returns to the loop, it terminates -- also when
\* every response requests a capability.
C1_BoundedInvocationsAndTermination ==
  /\ [](modelCalls <= MAX_TOOL_LOOPS)
  /\ <>(RunStopped \/ ModelCallUnsettled)

\* C1 witness: a run whose every response requested capabilities has stopped
\* after exactly MAX_TOOL_LOOPS invocations.
C1_Witness ==
  /\ agPc = "done"
  /\ modelCalls = MAX_TOOL_LOOPS
  /\ Len(pendingCalls) > 0
  /\ dispatches = MAX_TOOL_LOOPS * Len(pendingCalls)

\* C2 (as claimed): a run of either variant that stopped at the cap while its
\* last model response still carried tool calls returns an answer containing
\* the truncation notice.
C2_NoticeWhenCapReached ==
  (agPc = "done" /\ loopCount >= MAX_TOOL_LOOPS /\ Len(pendingCalls) > 0)
    => HasNotice(finalResponse)

\* C3 (as claimed): executeTool never throws, and an unregistered name, an
\* argument string that is not valid JSON and a throwing executor each give
\* success = false with an explanatory text.
C3_Original ==
  etOutcome # NoResult =>
    /\ ~etOutcome.threw
    /\ etOutcome.success \in BOOLEAN
    /\ (etName \notin toolRegistry \/ ~JsonParses(etArgs) \/ etExec = "throw")
         => (~etOutcome.success /\ Len(etOutcome.result) > 0)

\* C3 (amended): executeTool never throws, and an unregistered name, a
\* non-empty argument string that is not valid JSON and a throwing executor
\* each give success = false with an explanatory text; the empty argument
\* string is read as "{}".
C3_ExecuteToolNeverThrows ==
  etOutcome # NoResult =>
    /\ ~etOutcome.threw
    /\ etOutcome.success \in BOOLEAN
    /\ (etName \notin toolRegistry
          \/ (etArgs # "" /\ ~JsonParses(etArgs))
          \/ etExec = "throw")
         => (~etOutcome.success /\ Len(etOutcome.result) > 0)

\* C3 witness: a registered executor was reached with parsable arguments,
\* threw, and the call returned a failed result.
C3_Witness ==
  /\ etName \in toolRegistry
  /\ JsonParses(etArgs)
  /\ etExec = "throw"
  /\ etOutcome # NoResult
  /\ ~etOutcome.success
  /\ etOutcome.result[1] = "Tool execution error: "

\* C4: a dispatch that returns success = false does not end the run: its
\* text becomes the tool-result message of that call, the next call of the
\* same assistant message is dispatched, and after the last call the loop
\* goes on exactly as after a successful dispatch (to the next model
\* invocation while the cap allows one).  The conversation is one that no
\* collaborator has deleted under the run.
C4_FailedDispatchContinues ==
  [][ (ToolReturn /\ convExists
         /\ ~lastResult'.success /\ lastResult'.result # << >>) =>
        /\ messages' = Append(messages,
             Msg("tool", lastResult'.result, << >>, pendingCalls[tcIdx].id))
        /\ Len(dbMessages') = Len(dbMessages) + 1
        /\ dbMessages'[Len(dbMessages')].role = "tool"
        /\ dbMessages'[Len(dbMessages')].content = lastResult'.result
        /\ IF tcIdx < Len(pendingCalls)
             THEN agPc' = "await_tool" /\ tcIdx' = tcIdx + 1
                  /\ dispatches' = dispatches + 1
             ELSE IF loopCount < MAX_TOOL_LOOPS
               THEN agPc' = "await_model" /\ modelCalls' = modelCalls + 1
               ELSE agPc' = "done"
    ]_vars

\* C4 witness: the first of two calls failed (unknown tool), the second was
\* still dispatched and answered, and the next model invocation is under way.
C4_Witness ==
  /\ agPc = "await_model"
  /\ modelCalls = 2
  /\ Len(pendingCalls) = 2
  /\ pendingCalls[1].name = "no_such_tool"
  /\ dispatches = 2
  /\ dbMessages[Len(dbMessages) - 1].content = << "Unknown tool: ", "no_such_tool" >>
  /\ dbMessages[Len(dbMessages)].role = "tool"

\* C5: a transport failure of a model call makes the run fail at once, with
\* no change to the conversation, and a failed run issues no further model
\* invocation or dispatch and leaves the conversation as it is.
C5_TransportFailureAborts ==
  [][ /\ (modelErrors' > modelErrors) =>
           (agPc' = "failed" /\ modelCalls' = modelCalls
              /\ dispatches' = dispatches
              /\ dbMessages' = dbMessages /\ messages' = messages)
      /\ (agPc = "failed") =>
           (agPc' = "failed" /\ modelCalls' = modelCalls
              /\ dispatches' = dispatches
              /\ dbMessages' = dbMessages /\ messages' = messages)
    ]_vars

\* C5 witness: a run failed on its second model invocation, after it had
\* stored an assistant message and a tool result.
C5_Witness ==
  /\ agPc = "failed"
  /\ modelErrors = 1
  /\ modelCalls = 2
  /\ dispatches >= 1
  /\ dbMessages[Len(dbMessages)].role = "tool"

\* index of the most recent assistant message before position i (0 if none)
LastAssistantBefore(db, i) ==
  LET S == { j \in 1..(i - 1) : db[j].role = "assistant" }
  IN  IF S = { } THEN 0 ELSE CHOOSE j \in S : \A k \in S : k <= j

\* C6 (as claimed): in the stored conversation every tool-role message
\* answers, in order, exactly one not-yet-answered ToolCall of the most recent
\* assistant message, and carries that call's id.
C6_ToolResultsAnswerCalls ==
  \A i \in 1..Len(dbMessages) :
    dbMessages[i].role = "tool" =>
      LET a == LastAssistantBefore(dbMessages, i)
      IN  /\ a > 0
          /\ \A j \in (a + 1)..(i - 1) : dbMessages[j].role = "tool"
          /\ LET tcs == dbMessages[a].tool_calls
                 k   == i - a
             IN  /\ k <= Len(tcs)
                 /\ dbMessages[i].tool_call_id = tcs[k].id
                 /\ Cardinality({ j \in k..Len(tcs) :
                                    tcs[j].id = dbMessages[i].tool_call_id }) = 1

\* ------------------------------------------------------------------------
\* Claims about the scheduler and the task store
\* ------------------------------------------------------------------------

\* C7: getDueTasks returns exactly the tasks whose status is active and whose
\* next_run is set and at or before now; never a paused, completed or error
\* task, never one whose next_run is null or in the future.
C7_DueExactlyActiveAndReached ==
  DueIds(tasks, now) =
    { id \in DOMAIN tasks : /\ tasks[id].status = "active"
                            /\ tasks[id].next_run # NoTime
                            /\ tasks[id].next_run <= now }

\* C8: when the scheduler has executed a task of kind once, whether the run
\* succeeded or threw, the task's next_run is null and its status is
\* completed.
C8_OnceTaskCompletedAfterRun ==
  [][\A outcome \in RunOutcomes :
       ( /\ TaskRunEnd(outcome)
         /\ tickCur.schedule_type = "once"
         /\ tickCur.id \in DOMAIN tasks )
       => /\ tasks'[tickCur.id].next_run = NoTime
          /\ tasks'[tickCur.id].status = "completed"]_vars

\* C9: when the scheduler has executed a task of kind interval with period P,
\* the task's next_run is the time the run finished plus P, a task that was
\* active stays active after a successful run, and the task is not due at any
\* instant before P has elapsed since the run finished.
C9_IntervalNextRunAfterPeriod ==
  [][\A outcome \in RunOutcomes :
       ( /\ TaskRunEnd(outcome)
         /\ tickCur.schedule_type = "interval"
         /\ tickCur.id \in DOMAIN tasks )
       => LET P == parseInt(tickCur.schedule_value).value
          IN  /\ tasks'[tickCur.id].next_run = now + P
              /\ ( outcome = "success" /\ tasks[tickCur.id].status = "active"
                    => tasks'[tickCur.id].status = "active" )
              /\ \A t \in Instants :
                    t < now + P => ~IsDueRow(tasks'[tickCur.id], t)]_vars

\* C10: the status of a task changes only from active to completed (kind
\* once), active to paused, paused to active, active to error, or error to
\* active, whatever the interleaving of ticks and requests.
C10_StatusTransitions ==
  [][\A id \in DOMAIN tasks \cap DOMAIN tasks' :
       tasks'[id].status # tasks[id].status
       => \/ /\ tasks[id].status = "active"
             /\ tasks'[id].status = "completed"
             /\ tasks[id].schedule_type = "once"
          \/ << tasks[id].status, tasks'[id].status >> \in
               { << "active", "paused" >>, << "paused", "active" >>,
                 << "active", "error" >>,  << "error", "active" >> }]_vars

\* C11: at most one scheduler tick is in progress: the guard flag is set
\* exactly while a tick has a run in flight (so it is released when the tick
\* ends, also by an exception), while the flag is set a new run is started
\* only by the running tick taking the next task of its own queue (a timer
\* firing meanwhile starts nothing and queues nothing), and at most one timer
\* is alive however often startScheduler and stopScheduler are called.
C11_SingleTickInProgress ==
  /\ [](isRunning <=> tickCur # << >>)
  /\ [](timers <= 1 /\ (schedulerInterval <=> timers = 1))
  /\ [][( /\ isRunning
          /\ tickCur' # << >>
          /\ (tickCur' # tickCur \/ tickQueue' # tickQueue) )
        => /\ tickQueue # << >>
           /\ tickCur' = Head(tickQueue)
           /\ tickQueue' = Tail(tickQueue)]_vars

\* C11 witness: the timer exists and a tick is in progress with a second due
\* task waiting in its queue; timer firings and startScheduler calls are
\* enabled in this state.
C11_Witness ==
  /\ schedulerInterval
  /\ timers = 1
  /\ isRunning
  /\ tickQueue # << >>

\* C12: within one tick, the end of a task's processing is always followed by
\* the run of the next due task of that tick, whatever went wrong while
\* processing; and a task whose run threw ends with status error and a
\* run-log row with outcome error.
C12_FailureDoesNotAbortTick ==
  [][( /\ tickCur # << >>
       /\ tickCur' # tickCur )
     => /\ tickQueue # << >> => tickCur' = Head(tickQueue)
        /\ ( TaskRunEnd("error") /\ tickCur.id \in DOMAIN tasks
             => /\ tasks'[tickCur.id].status = "error"
                /\ logs' = Append(logs, [task_id |-> tickCur.id,
                                         status |-> "error"]) )]_vars

\* C13: every execution attempt of a task by the scheduler appends exactly
\* one run-log row for that task, with outcome success when the run returned
\* and error when it threw; any other step leaves the existing rows as they
\* are (it may append a row) or removes exactly the rows of a task it deletes.
C13_OneLogRowPerAttempt ==
  [][IF tickCur # << >> /\ tickCur' # tickCur
       THEN \E outcome \in RunOutcomes :
              /\ TaskRunEnd(outcome)
              /\ logs' = Append(logs, [task_id |-> tickCur.id,
                                       status |-> outcome])
       ELSE \/ logs' = logs
            \/ /\ Len(logs') = Len(logs) + 1
               /\ SubSeq(logs', 1, Len(logs)) = logs
            \/ \E id \in DOMAIN tasks \ DOMAIN tasks' :
                 logs' = deleteTaskLogs(logs, id)]_vars

\* ids of the tasks a tick holds: the one in flight and the ones queued
TickIds(cur, queue) ==
  (IF cur = << >> THEN { } ELSE { cur.id })
    \cup { queue[i].id : i \in 1..Len(queue) }

\* C14: pause affects only future eligibility.  When the run in flight of a
\* paused task ends, the run is logged and the task is not active afterwards;
\* a tick that starts takes only tasks that are active when it queries; and a
\* paused task becomes active only by a resume request.
C14_PauseAffectsFutureEligibility ==
  /\ [][( /\ tickCur # << >>
          /\ tickCur' # tickCur
          /\ tickCur.id \in DOMAIN tasks
          /\ tasks[tickCur.id].status = "paused" )
        => /\ Len(logs') = Len(logs) + 1
           /\ logs'[Len(logs')].task_id = tickCur.id
           /\ SubSeq(logs', 1, Len(logs)) = logs
           /\ tasks'[tickCur.id].status # "active"]_vars
  /\ [][(~isRunning /\ isRunning')
        => \A id \in TickIds(tickCur', tickQueue') :
             tasks[id].status = "active"]_vars
  /\ [][\A id \in DOMAIN tasks \cap DOMAIN tasks' :
          (tasks[id].status = "paused" /\ tasks'[id].status = "active")
          => (ResumeTask(id) \/ ApiResume(id))]_vars

\* C14 witness: no tick is running, and a recurring task is paused after a
\* run of it was logged and its next_run was rewritten by that run's
\* bookkeeping at the present instant.
C14_Witness ==
  /\ ~isRunning
  /\ \E id \in DOMAIN tasks :
       /\ tasks[id].status = "paused"
       /\ tasks[id].schedule_type = "interval"
       /\ tasks[id].next_run = now + parseInt(tasks[id].schedule_value).value
       /\ now > 0
       /\ \E i \in 1..Len(logs) : logs[i].task_id = id

\* C15: resuming a paused task, by the resume_task capability or by the
\* tasks API, makes it active and sets its next_run to the value computed
\* from its stored schedule kind and value at the time of the resume.
C15_ResumeRecomputesNextRun ==
  [][\A id \in DOMAIN tasks :
       ( /\ tasks[id].status = "paused"
         /\ (ResumeTask(id) \/ ApiResume(id)) )
       => /\ tasks'[id].status = "active"
          /\ tasks'[id].next_run =
               computeNextRun(tasks[id].schedule_type,
                              tasks[id].schedule_value, now)]_vars

\* C16: deletion is immediate and irreversible.  Every run-log row belongs to
\* an existing task, so a deleted task has no rows, when it is deleted and
\* ever after; and an id that was handed out and is no longer in the table
\* never comes back, whatever bookkeeping a run in flight still does.
C16_DeletionIsIrreversible ==
  /\ [](\A i \in 1..Len(logs) : logs[i].task_id \in DOMAIN tasks)
  /\ [](DOMAIN tasks \subseteq 1..(nextTaskId - 1))
  /\ [][\A id \in 1..(nextTaskId - 1) :
          id \notin DOMAIN tasks => id \notin DOMAIN tasks']_vars

\* C16 witness: a task has been deleted while its run is in flight, in a tick
\* or in a run-now request.
C16_Witness ==
  \/ tickCur # << >> /\ tickCur.id \notin DOMAIN tasks
  \/ apiRun # << >> /\ apiRun.id \notin DOMAIN tasks

RECURSIVE EventText(_, _)
EventText(evs, type) ==
  IF evs = << >> THEN << >>
  ELSE (IF Head(evs).type = type THEN Head(evs).data ELSE << >>)
         \o EventText(Tail(evs), type)

\* the message handed to onDone
DoneData == dcEvents[Len(dcEvents)].data

\* text || null
OrNull(text) == IF text = << >> THEN NullText ELSE text

\* C18: however '<think>hello world</think>answer' is cut into content
\* fragments, also inside the tags, the reasoning events concatenate to
\* 'hello world' and the content events and the final content are 'answer'.
C18_SplitTagsDecoded ==
  (dcPc = "done" /\ dcInput.kind = "split")
  => /\ EventText(dcEvents, "reasoning") = HelloWorld
     /\ EventText(dcEvents, "token") = Answer
     /\ DoneData.content = Answer

\* C19: when the opening and the closing tag each arrive whole in a fragment,
\* whatever the cut into transport reads, the reasoning events are the text
\* after the opening tag, the fragments in between and the text before the
\* closing tag, and nothing else; the content events and the final content
\* are the fragments before the opening fragment, the text after the closing
\* tag and the later fragments; and the decoder is in content mode at the
\* end.
C19_ReasoningModePersists ==
  (dcPc = "done" /\ dcInput.kind = "whole")
  => /\ EventText(dcEvents, "reasoning") = dcInput.reasoning
     /\ EventText(dcEvents, "token") = dcInput.content
     /\ fullContent = dcInput.content
     /\ DoneData.content = OrNull(dcInput.content)
     /\ ~insideThinkTag

\* C19 witness: a decoded stream of at least three transport reads with two
\* fragments between the tags, text on both sides of the closing tag in its
\* fragment, and a later fragment.
C19_Witness ==
  /\ dcPc = "done"
  /\ dcInput.kind = "whole"
  /\ Len(dcInput.reads) >= 3
  /\ Len(dcInput.reasoning) >= 5
  /\ Len(dcInput.content) >= 2
  /\ EventText(dcEvents, "reasoning") = dcInput.reasoning

\* the tool-call fragments of a stream, in arrival order
RECURSIVE FragmentsOf(_)
FragmentsOf(reads) ==
  IF reads = << >> THEN << >>
  ELSE LET deltas == Head(reads)
       IN  Flatten([i \in 1..Len(deltas) |-> deltas[i].tool_calls])
             \o FragmentsOf(Tail(reads))

\* the argument fragments of one index, concatenated in arrival order
RECURSIVE ArgumentsOf(_, _)
ArgumentsOf(frags, idx) ==
  IF frags = << >> THEN << >>
  ELSE (IF Head(frags).index = idx THEN Head(frags).arguments ELSE << >>)
         \o ArgumentsOf(Tail(frags), idx)

\* C20: the fragments of one index are assembled into one ToolCall whose
\* argument string is the concatenation, in arrival order, of all argument
\* fragments of that index, and of no other index.
C20_ArgumentsConcatenated ==
  (dcPc = "done" /\ dcInput.kind = "tools")
  => LET frags == FragmentsOf(dcInput.reads)
     IN  \A idx \in { frags[i].index : i \in 1..Len(frags) } :
           /\ Cardinality({ i \in 1..Len(toolCallsMap) :
                              toolCallsMap[i].index = idx }) = 1
           /\ \A i \in 1..Len(toolCallsMap) :
                toolCallsMap[i].index = idx
                => /\ toolCallsMap[i].arguments = ArgumentsOf(frags, idx)
                   /\ DoneData.tool_calls[i].function.arguments =
                        ArgumentsOf(frags, idx)

\* C21: when the stream has ended, the map holds one entry per populated
\* index, the entries are in increasing index order, and the tool-call
\* callbacks and the tool_calls of the final message are the ToolCalls of
\* the entries in that order.
C21_ToolCallsInIndexOrder ==
  (dcPc = "done" /\ dcInput.kind = "tools")
  => /\ \A i, j \in 1..Len(toolCallsMap) :
          i < j => toolCallsMap[i].index < toolCallsMap[j].index
     /\ DoneData.tool_calls =
          [i \in 1..Len(toolCallsMap) |-> AssembledToolCall(toolCallsMap[i])]
     /\ SelectSeq(dcEvents, LAMBDA e : e.type = "tool_call") =
          [i \in 1..Len(toolCallsMap) |->
             DecoderEvent("tool_call", AssembledToolCall(toolCallsMap[i]))]

\* the first non-empty id among the fragments of one index ("" when none)
RECURSIVE FirstId(_, _)
FirstId(frags, idx) ==
  IF frags = << >> THEN ""
  ELSE IF Head(frags).index = idx /\ Head(frags).id # "" THEN Head(frags).id
  ELSE FirstId(Tail(frags), idx)

\* the first non-empty name among the fragments of one index ("" when none)
RECURSIVE FirstName(_, _)
FirstName(frags, idx) ==
  IF frags = << >> THEN ""
  ELSE IF Head(frags).index = idx /\ Head(frags).name # ""
    THEN Head(frags).name
  ELSE FirstName(Tail(frags), idx)

\* C22: the ToolCall assembled for an index carries the first non-empty id
\* and the first non-empty name among the fragments of that index, in
\* arrival order.
C22_FirstIdAndNameKept ==
  (dcPc = "done" /\ dcInput.kind = "tools")
  => LET frags == FragmentsOf(dcInput.reads)
     IN  \A i \in 1..Len(toolCallsMap) :
           /\ DoneData.tool_calls[i].id =
                FirstId(frags, toolCallsMap[i].index)
           /\ DoneData.tool_calls[i].function.name =
                FirstName(frags, toolCallsMap[i].index)

\* ------------------------------------------------------------------------
\* Claims about the router
\* ------------------------------------------------------------------------

\* the text contains one of the keywords, in any letter case, at any position
ContainsKeyword(text, keywords) ==
  \E k \in 1..Len(keywords) : includes(toLowerCase(text), keywords[k])

\* C23: a classified message that contains a long-running keyword and a tool
\* keyword, each in any letter case and at any position, is tagged
\* LONG_RUNNING.
C23_LongRunningPrecedence ==
  ( /\ taskType # NoTaskType
    /\ ContainsKeyword(chMessage, LONG_RUNNING_KEYWORDS)
    /\ ContainsKeyword(chMessage, TOOL_KEYWORDS) )
  => taskType = "LONG_RUNNING"

\* C23 witness: a classified message in which a tool keyword comes before a
\* long-running keyword written in capitals.
C23_Witness ==
  /\ taskType = "LONG_RUNNING"
  /\ toLowerCase(chMessage) # chMessage
  /\ \E k \in 1..Len(TOOL_KEYWORDS), l \in 1..Len(LONG_RUNNING_KEYWORDS) :
       /\ includes(chMessage, TOOL_KEYWORDS[k])
       /\ ~includes(chMessage, LONG_RUNNING_KEYWORDS[l])
       /\ indexOf(toLowerCase(chMessage), TOOL_KEYWORDS[k])
            < indexOf(toLowerCase(chMessage), LONG_RUNNING_KEYWORDS[l])

\* the message looks like a question: under 120 characters, and its
\* lower-cased text without surrounding blanks ends with a question mark or
\* starts with a question word or auxiliary verb
ShortQuestion(message) ==
  LET lower == trim(toLowerCase(message))
  IN  /\ Len(message) < 120
      /\ \/ lower # << >> /\ lower[Len(lower)] = "?"
         \/ \E k \in 1..Len(QuestionPrefixes) :
              /\ Len(lower) >= Len(QuestionPrefixes[k])
              /\ \A i \in 1..Len(QuestionPrefixes[k]) :
                   lower[i] = QuestionPrefixes[k][i]

\* C24: every classified message carries exactly one of the five tags, the
\* one of the first rule that matches: long-running keyword, tool keyword,
\* research keyword, short question, otherwise COMPLEX_REASONING.
C24_FirstMatchingRule ==
  taskType # NoTaskType
  => LET long     == ContainsKeyword(chMessage, LONG_RUNNING_KEYWORDS)
         tool     == ContainsKeyword(chMessage, TOOL_KEYWORDS)
         research == ContainsKeyword(chMessage, RESEARCH_KEYWORDS)
         question == ShortQuestion(chMessage)
     IN  /\ taskType \in TaskTypes
         /\ taskType = "LONG_RUNNING" <=> long
         /\ taskType = "TOOL_TASK" <=> (~long /\ tool)
         /\ taskType = "RESEARCH_TASK" <=> (~long /\ ~tool /\ research)
         /\ taskType = "SIMPLE_QA"
              <=> (~long /\ ~tool /\ ~research /\ question)
         /\ taskType = "COMPLEX_REASONING"
              <=> (~long /\ ~tool /\ ~research /\ ~question)

\* C24 witness: a message of 119 characters that starts with an auxiliary
\* verb was tagged SIMPLE_QA.
C24_Witness ==
  /\ taskType = "SIMPLE_QA"
  /\ Len(chMessage) = 119
  /\ chMessage[Len(chMessage)] # "?"

\* ------------------------------------------------------------------------
\* Claims about the planner
\* ------------------------------------------------------------------------

\* the step object with the four fields, as a parsed value
StepValue(id, title, action, description) ==
  JsonValue("object", "",
    << [JsonValue("number", id, << >>) EXCEPT !.k = "\"id\""],
       [JsonValue("string", title, << >>) EXCEPT !.k = "\"title\""],
       [JsonValue("string", action, << >>) EXCEPT !.k = "\"action\""],
       [JsonValue("string", description, << >>)
          EXCEPT !.k = "\"description\""] >>)

\* C25: planner output made of reasoning text followed by the object
\* {"steps":[{"id":1,"title":"Search","action":"search","description":
\* "find X"},{"id":2,"title":"Answer","action":"final_answer","description":
\* "reply"}]} parses to a plan of exactly these two steps, in this order.
C25_ExamplePlanParsed ==
  ( /\ chPc = "planned"
    /\ \E pre \in ReasoningTexts :
         plContent = pre \o StepsObject(<< SearchStep, AnswerStep >>) )
  => /\ timeline.plan
     /\ timeline.steps =
          << StepValue("1", "\"Search\"", "\"search\"", "\"find X\""),
             StepValue("2", "\"Answer\"", "\"final_answer\"", "\"reply\"") >>

\* the value has the four fields of a step with the right primitive types
HasStepFields(s) ==
  /\ s.t = "object"
  /\ \E i \in 1..Len(s.items) :
       s.items[i].k = "\"id\"" /\ s.items[i].t = "number"
  /\ \A key \in { "\"title\"", "\"action\"", "\"description\"" } :
       \E i \in 1..Len(s.items) :
         s.items[i].k = key /\ s.items[i].t = "string"

\* C26: a plan returned by the planner is non-empty and each of its steps
\* has a numeric id and a string title, action and description; when the
\* output is a JSON array, alone or as the steps of the object, the plan is
\* the steps of that array that pass this check, in order, and there is no
\* plan when none passes.
C26_PlanStepsValid ==
  chPc = "planned"
  => /\ timeline.plan
          => /\ timeline.steps # << >>
             /\ \A i \in 1..Len(timeline.steps) :
                  HasStepFields(timeline.steps[i])
     /\ \A steps \in SeqsUpTo(StepVariants, MaxSteps) :
          plContent \in { StepsObject(steps), StepsArray(steps) }
          => LET written == JsonParse(StepsArray(steps)).val.items
                 passing == SelectSeq(written, HasStepFields)
             IN  /\ timeline.plan <=> passing # << >>
                 /\ timeline.plan => timeline.steps = passing

\* ------------------------------------------------------------------------
\* Claims about the chat turn
\* ------------------------------------------------------------------------

\* steps that fail the planner's validation
InvalidStepVariants == { StringIdStep, NoDescriptionStep, NullStep }

\* planner outputs that hold no parsable JSON (the object is cut off) or
\* whose JSON holds no valid step
OutputsWithoutPlan ==
  { pre \o body \o post :
      pre \in ReasoningTexts,
      body \in UNION { { CutStepsObject(steps) } :
                       steps \in SeqsUpTo(StepVariants, MaxSteps) }
               \cup
               UNION { { StepsObject(steps), SpacedStepsObject(steps),
                         StepsArray(steps) } :
                       steps \in SeqsUpTo(InvalidStepVariants, MaxSteps) },
      post \in TrailingTexts }

PlannerFailed == plError \/ plContent \in OutputsWithoutPlan

ErrorEvents(evs) == { i \in 1..Len(evs) : evs[i].type = "error" }

\* C27: once the planner stage is over after a planner failure (transport
\* error, no parsable plan JSON, no valid step) the planner has reported no
\* plan, the turn is on the direct path with no error event written for the
\* failure, and a closed turn has made exactly one run, the direct run on
\* the user's message; a SIMPLE_QA turn never reaches the planner and a
\* closed one has made exactly that one run too
C27_PlannerFailureRunsDirect ==
  /\ ( /\ chPc \in { "direct_run", "step_run", "closed" }
       /\ taskType # "SIMPLE_QA"
       /\ PlannerFailed )
     => /\ timeline = NoTimeline
        /\ chPc \in { "direct_run", "closed" }
        /\ chPc = "direct_run" => ErrorEvents(chEvents) = { }
        /\ Len(chRuns) = 1 /\ chRuns[1].kind = "direct"
  /\ taskType = "SIMPLE_QA"
     => /\ timeline = NoTimeline
        /\ chPc \in { "direct_run", "closed" }
        /\ \A i \in 1..Len(chEvents) : chEvents[i].type # "timeline"
        /\ Len(chRuns) = 1 /\ chRuns[1].kind = "direct"

RunsOfStep(i) == { r \in 1..Len(chRuns) : chRuns[r].step = i }

StepFailureEvents ==
  { i \in 1..Len(chEvents) :
      chEvents[i] = Event("error", StepFailedMessage) }

\* C28: in a turn that runs a plan no step has more than two runs, a second
\* run of a step directly follows a failed first one, the runs go through
\* the steps in plan order, there is one step-failure error event for each
\* step whose two runs both failed, and when the turn is closed every step
\* of the plan has been run
C28_EveryStepAttempted ==
  timeline.plan
  => /\ \A i \in 1..Len(timeline.steps) : Cardinality(RunsOfStep(i)) <= 2
     /\ \A r \in 1..(Len(chRuns) - 1) :
          /\ chRuns[r].step <= chRuns[r + 1].step
          /\ chRuns[r].step = chRuns[r + 1].step => chRuns[r].failed
     /\ Cardinality(StepFailureEvents)
          = Cardinality({ i \in 1..Len(timeline.steps) :
                            /\ Cardinality(RunsOfStep(i)) = 2
                            /\ \A r \in RunsOfStep(i) : chRuns[r].failed })
     /\ chPc = "closed"
        => \A i \in 1..Len(timeline.steps) : RunsOfStep(i) # { }

ThrownErrorEvents ==
  { i \in 1..Len(chEvents) : chEvents[i] = Event("error", ThrownMessage) }

SentinelItems == { i \in 1..Len(chEvents) : chEvents[i] = Sentinel }

\* C29 (as stated): a turn writes at most one error event, only the
\* sentinel follows an error event, and the stream of a closed turn holds
\* the sentinel exactly once, as its last item
C29_SingleErrorThenSentinel ==
  /\ Cardinality(ErrorEvents(chEvents)) <= 1
  /\ \A i \in ErrorEvents(chEvents) :
       \A j \in (i + 1)..Len(chEvents) : chEvents[j] = Sentinel
  /\ SentinelItems = IF chPc = "closed" THEN { Len(chEvents) } ELSE { }

\* C29 (amended): the sentinel is written exactly once, as the last item of
\* a closed turn; the error event of a failure that ends the turn is written
\* at most once and is directly followed by the sentinel, which ends the
\* stream; a step whose retry failed adds one error event, at most one per
\* started step, after which the turn goes on
C29_TerminalErrorThenSentinel ==
  /\ SentinelItems = IF chPc = "closed" THEN { Len(chEvents) } ELSE { }
  /\ Cardinality(ThrownErrorEvents) <= 1
  /\ \A i \in ThrownErrorEvents :
       i + 1 = Len(chEvents) /\ chEvents[i + 1] = Sentinel
  /\ \A i, j \in StepFailureEvents :
       i < j => \E k \in (i + 1)..(j - 1) : chEvents[k].type = "step_start"
  /\ \A i \in StepFailureEvents :
       \E k \in 1..(i - 1) : chEvents[k].type = "step_start"

\* C29 witness: a closed turn in which the error event of a failed step is
\* followed by the start of the next step, whose own retry failed as well
C29_Witness ==
  /\ chPc = "closed"
  /\ \E i, j \in StepFailureEvents :
       /\ i < j
       /\ \E k \in (i + 1)..(j - 1) : chEvents[k].type = "step_start"
  /\ chEvents[Len(chEvents)] = Sentinel

\* C30: on the stream of one chat turn no token, reasoning, tool_start,
\* tool_end, step_start or error event comes after a done event
C30_NothingAfterDone ==
  \A i \in 1..Len(chEvents) :
    chEvents[i].type = "done"
    => \A j \in (i + 1)..Len(chEvents) :
         chEvents[j].type \notin { "token", "reasoning", "tool_start",
                                   "tool_end", "step_start", "error" }

\* ------------------------------------------------------------------------
\* Claims about the history sent to the model and the conversation store
\* ------------------------------------------------------------------------

\* the conversation's row has not been deleted since the run stored or found
\* its user message: the store still holds that message
ConversationKept ==
  /\ convExists
  /\ \E i \in 1..Len(dbMessages) :
       dbMessages[i] = Msg("user", UserMessage, << >>, NullId)

\* C31: whenever a model call of the run is in flight it was given the
\* system message first, then at most RecentLimit messages, which are the
\* most recent messages of the conversation, oldest first.  The conversation
\* is one that no collaborator has deleted under the run.
C31_RecentHistorySent ==
  (agPc = "await_model" /\ ConversationKept)
  => /\ messages[1] = Msg("system", SystemPrompt, << >>, NullId)
     /\ Len(messages) <= 1 + RecentLimit
     /\ \A i \in 1..(Len(messages) - 1) :
          /\ i <= Len(Recent(dbMessages))
          /\ messages[i + 1].role = Recent(dbMessages)[i].role
          /\ messages[i + 1].content = Recent(dbMessages)[i].content

\* the row the store holds for an in-memory message (toolCallId || null)
StoredForm(m) ==
  [m EXCEPT !.tool_call_id = IF @ = "" THEN NullId ELSE @]

\* the messages that follow the run's user message
RunMessages(ms) ==
  LET users == { i \in 1..Len(ms) :
                   ms[i].role = "user" /\ ms[i].content = UserMessage }
      last == IF users = { } THEN 0
              ELSE CHOOSE i \in users : \A j \in users : j <= i
  IN  SubSeq(ms, last + 1, Len(ms))

IsPrefix(xs, ys) ==
  Len(xs) <= Len(ys) /\ xs = SubSeq(ys, 1, Len(xs))

IsSuffix(xs, ys) ==
  Len(xs) <= Len(ys) /\ xs = SubSeq(ys, Len(ys) - Len(xs) + 1, Len(ys))

\* the rows the store should hold for the run's in-memory messages
StoredRunMessages ==
  [i \in 1..Len(RunMessages(messages)) |-> StoredForm(RunMessages(messages)[i])]

\* C32 (as claimed): at every point of a started run, also after an abort,
\* the rows the store holds for the run are the assistant and tool-result
\* messages the loop has appended in memory, in the same order, and every
\* step only extends the stored conversation
C32_StoredAsProduced ==
  /\ [](agPc # "idle"
        => RunMessages(dbMessages)
             = [i \in 1..Len(RunMessages(messages)) |->
                  StoredForm(RunMessages(messages)[i])])
  /\ [][IsPrefix(dbMessages, dbMessages')]_vars

\* C32 (amended): while the conversation has not been deleted, the rows the
\* store holds for a started run are the messages the loop has appended in
\* memory, in the same order, also after an abort, and every step that leaves
\* the conversation in place only extends it; while the conversation is
\* deleted the store holds nothing of it and a write of the run ends the run
\* with an error; a conversation created again under the same id holds the
\* messages the run has appended since, in the same order
C32_StoredWhileConversationKept ==
  /\ []((agPc # "idle" /\ ConversationKept)
        => RunMessages(dbMessages) = StoredRunMessages)
  /\ []((agPc # "idle" /\ convExists /\ ~ConversationKept)
        => IsSuffix(dbMessages, StoredRunMessages))
  /\ [](~convExists => dbMessages = << >>)
  /\ [][convExists' => IsPrefix(dbMessages, dbMessages')]_vars
  /\ [][(~convExists /\ ((\E withTools \in BOOLEAN : ModelDone(withTools))
                           \/ ToolReturn))
          => (agPc' = "failed" /\ messages' = messages)]_vars
  /\ [][~convExists => messages' = messages]_vars

\* C32 witness: a run aborted by a transport error after it had produced an
\* assistant message and a tool result
C32_Witness ==
  /\ agPc = "failed"
  /\ modelErrors = 1
  /\ Len(RunMessages(messages)) >= 2
  /\ RunMessages(messages)[Len(RunMessages(messages))].role = "tool"

\* every step of the plan passes the planner's validation
ValidatedPlan ==
  /\ timeline.plan
  /\ \A i \in 1..Len(timeline.steps) :
       timeline.steps[i].t = "object" /\ ValidStep(timeline.steps[i])

\* C33: in a turn that runs a validated plan the conversation has received
\* exactly one user-role row, the user's message, from the moment the step
\* loop is entered to the end of the turn
C33_UserMessageStoredOnce ==
  ValidatedPlan => chUserRows = << UserMessageRow >>

\* ------------------------------------------------------------------------
\* Claims about created tasks: notification, cron schedule, eligibility
\* ------------------------------------------------------------------------

RunsLogged(id) == { i \in 1..Len(logs) : logs[i].task_id = id }

DeliveriesTo(l, id) ==
  { i \in 1..Len(delivered) :
      delivered[i].listener = l /\ delivered[i].task_id = id }

\* C34: for a task created by schedule_task with the notify flag set, every
\* registered listener has received one notification for each scheduler run
\* of the task that has ended
C34_DefaultNotifyDelivers ==
  \A id \in DOMAIN tasks :
    tasks[id].notify
    => \A k \in 1..Len(notifyCallbacks) :
         Cardinality(DeliveriesTo(notifyCallbacks[k], id))
           = Cardinality(RunsLogged(id))

\* the clock counts milliseconds from a midnight
DayMs == 24 * 3600000

\* milliseconds after midnight at which the expression fires: "0 8 * * *"
\* fires at 08:00
CronFireTimes(expr) == IF expr = VDaily THEN { 8 * 3600000 } ELSE { }

\* t is within two minutes (the one-minute estimate plus tick granularity)
\* after a time at which the expression fires
AroundCronFire(expr, t) ==
  \E f \in CronFireTimes(expr) : t % DayMs >= f /\ t % DayMs <= f + 120000

\* C35: whenever a tick starts the run of a cron task, the clock is around a
\* time at which the task's expression fires
C35_CronRunsWhenExpressionFires ==
  [][ ( /\ tickCur' # << >>
        /\ tickCur' # tickCur
        /\ tickCur'.schedule_type = "cron" )
      => AroundCronFire(tickCur'.schedule_value, now) ]_vars

\* ------------------------------------------------------------------------
\* Claims about the truncation notice
\* ------------------------------------------------------------------------

\* C36: a streaming run that ended on a model response without tool calls,
\* on whatever iteration, returns that response's content, and no token
\* event carries the truncation notice
C36_NoNoticeOnFinalAnswer ==
  (Streaming(agMode) /\ agPc = "done" /\ pendingCalls = << >>)
  => /\ finalResponse = OrEmpty(script.content)
     /\ \A i \in 1..Len(events) :
          events[i] # Event("token", TruncationNotice)

\* ------------------------------------------------------------------------
\* Claims about eligibility over a task's lifetime
\* ------------------------------------------------------------------------

\* the task is stored active with next_run at or before the clock
ActiveAndReached(id) ==
  /\ id \in DOMAIN tasks
  /\ tasks[id].status = "active"
  /\ tasks[id].next_run # NoTime
  /\ tasks[id].next_run <= now

\* a tick is executing the task
ExecutedByTick(id) == tickCur # << >> /\ tickCur.id = id

\* the model's budget of runs does not let another tick start
RunBudgetSpent == ~TickFits

\* C37: with the timer firing and runs ending, a task that is active with
\* next_run reached is eventually executed by a tick, unless a pause or
\* cancel request takes it out of the due set first
C37_DueTaskEventuallyExecuted ==
  \A id \in 1..2 :
    (schedulerInterval /\ ActiveAndReached(id))
      ~> (ExecutedByTick(id) \/ ~ActiveAndReached(id) \/ RunBudgetSpent)

\* C37 witness: a task that became due while a tick was running another
\* task is executed by a later tick
C37_Witness ==
  /\ ExecutedByTick(1)
  /\ tickQueue = << >>
  /\ \E i \in 1..Len(logs) : logs[i].task_id = 2

\* C38: a tick that is executing a task of kind once is the first scheduler
\* run of that task
C38_OnceTaskRunsAtMostOnce ==
  \A id \in DOMAIN tasks :
    (ExecutedByTick(id) /\ tickCur.schedule_type = "once")
    => RunsLogged(id) = { }

\* C39: an active task has a next_run, and a completed task is a once task
\* whose next_run is null
C39_StatusMatchesNextRun ==
  \A id \in DOMAIN tasks :
    /\ tasks[id].status = "active" => tasks[id].next_run # NoTime
    /\ tasks[id].status = "completed"
         => (tasks[id].schedule_type = "once" /\ tasks[id].next_run = NoTime)

\* ------------------------------------------------------------------------
\* Claims about the end of a model call
\* ------------------------------------------------------------------------

\* the callbacks that end a call: onDone and onError
TerminalCallbacks ==
  { i \in 1..Len(dcEvents) : dcEvents[i].type \in { "done", "error" } }

\* callOpenRouterStream has returned or thrown
CallEnded == dcPc \in { "done", "errored", "rejected" }

\* C40: at most one of onDone and onError is called and no callback follows
\* it, and a call that has ended has made one
C40_ExactlyOneTerminalCallback ==
  /\ Cardinality(TerminalCallbacks) <= 1
  /\ TerminalCallbacks \subseteq { Len(dcEvents) }
  /\ CallEnded => TerminalCallbacks # { }

====
